---- MODULE Spec2Model ----
(***************************************************************************)
(* A model of d0ma1n: the confusable graph builder (reverse-map.ts), the   *)
(* variant generator (generate.ts), the danger scorer (score.ts) and the   *)
(* reverse resolver (reverse-scan.ts).                                     *)
(*                                                                         *)
(* Characters are Unicode code points (integers); a string is a sequence   *)
(* of code points.  Scores (danger, stableDanger) are rationals written as *)
(* integer multiples of 1/ScoreUnit, so 1.0 is ScoreUnit and 0.5 is        *)
(* ScoreUnit \div 2.                                                       *)
(***************************************************************************)
EXTENDS Integers, Sequences, FiniteSets, TLC

VARIABLES
    pc,           \* position of the forward pipeline
    buildOpts,    \* options buildPrototypeBuckets was called with
    pendingMap,   \* CONFUSABLE_MAP_FULL entries not yet iterated
    pendingW,     \* CONFUSABLE_WEIGHTS entries not yet iterated
    raw,          \* raw: Record<string, Map<string, ConfusableSubstitute>>
    buckets,      \* the PrototypeBuckets handed to generateVariants
    built,        \* TRUE when buckets came out of buildPrototypeBuckets
    genLabel,     \* the label generateVariants was called with
    genOpts,      \* the GenerateOptions it was called with
    variants,     \* the RawVariant[] it returned
    scPc,         \* scorer: "idle" or "scored"
    scSubs,       \* the Substitution[] computeDangerScore was called with
    scUseMax,     \* options.useMaxDanger of that call
    scResult,     \* the number it returned
    rvPc,         \* reverse resolver: "idle", "returned" or "threw"
    rvDomain,     \* the domain reverseScan was called with
    rvResult,     \* the ReverseScanResult it returned
    acePc,        \* ACE codec: "idle", "encoded", "decoded" or "threw"
    aceInput,     \* the domain toPunycode was called with
    aceOutput,    \* the string handed to fromPunycode
    aceDecoded,   \* the string fromPunycode returned
    ftPc,         \* font scorer: "idle", "found" or "scored"
    ftSubs,       \* the Substitution[] findBestFont was called with
    ftBest,       \* what findBestFont returned
    ftRaw,        \* the RawVariant[] scoreVariants was called with
    ftOpts,       \* the ScoreOptions of that call
    ftScored,     \* the DomainVariant[] it returned
    semMax,       \* Semaphore.max of the Node resolver
    semRunning,   \* Semaphore.running
    semQueue,     \* Semaphore.queue: the resolve() calls waiting, in order
    callPc,       \* each resolve() call: "idle", "waiting", "admitted",
                  \* "lookup" or "returned"
    resolver,     \* the DnsResolver in use: "node" or "doh"
    dnsResult,    \* the DnsResult returned last
    snPc,         \* scan: "idle" or "returned"
    snDomain,     \* the domain scan was called with
    snOpts,       \* its ScanOptions
    snResult,     \* the ScanResult it returned
    tgPc,         \* getTargetTlds: "idle" or "returned"
    tgBase,       \* options.baseTlds of the call, <<>> when absent
    tgVariants,   \* options.tldVariants of the call
    tgChars,      \* the replacement characters whose scripts were passed
    tgResult,     \* the list it returned
    rateLimits,   \* the worker's rateLimits map: ip -> {count, resetAt}
    rlNow,        \* Date.now() at the last checkRateLimit call
    rlLast,       \* the last call: its ip, its cost and what it returned
    rlServed,     \* per ip, the cost of the requests allowed in its window
    rlCalls,      \* how many checkRateLimit calls were made
    wkBuckets,    \* the worker's cachedBuckets, with the options it was built with
    dfBuckets,    \* the cachedBuckets of getDefaultBuckets, likewise
    bkPc,         \* a generation call over a cached instance: "idle" or "returned"
    bkCall,       \* that call: the cache used, label, options and result
    btPc,         \* a scan with DNS: "idle", "resolving" or "returned"
    btCall,       \* the call: which scan, the domain and the options
    btList,       \* allVariants after the cap, each with its dns once assigned
    btAsked,      \* the domains resolver.resolve was called with, in order
    btResult,     \* the ScanResult returned
    kv,           \* the worker's KV namespace: cache key -> stored ScanResult
    wsZone,       \* the DNS answers of the period
    wsPc,         \* cachedScan: "idle", "miss" or "served"
    wsReq,        \* the request: domain and options
    wsHit,        \* TRUE when kv.get returned an entry
    wsServed,     \* the ScanResult cachedScan returned
    shTable,      \* the PrototypeBuckets instance the callers share
    shRaw,        \* the RawVariant[] the scoring calls are handed
    shPc,         \* each caller: "idle", "running" or "returned"
    shCall,       \* each caller's call
    shPos,        \* the position its loop is at
    shSt,         \* what its loop has collected
    shOut,        \* what the call returned
    shOverlap     \* TRUE when the call ran while the other caller's did

genVars == <<pc, buildOpts, pendingMap, pendingW, raw, buckets, built,
             genLabel, genOpts, variants>>
scVars == <<scPc, scSubs, scUseMax, scResult>>
rvVars == <<rvPc, rvDomain, rvResult>>
aceVars == <<acePc, aceInput, aceOutput, aceDecoded>>
\* the state of the components added after the first three
ftVars == <<ftPc, ftSubs, ftBest, ftRaw, ftOpts, ftScored>>
dnsVars == <<semMax, semRunning, semQueue, callPc, resolver, dnsResult>>
snVars == <<snPc, snDomain, snOpts, snResult>>
tgVars == <<tgPc, tgBase, tgVariants, tgChars, tgResult>>
\* the state of the components around the scan pipeline
rlVars == <<rateLimits, rlNow, rlLast, rlServed, rlCalls>>
bkVars == <<wkBuckets, dfBuckets, bkPc, bkCall>>
btVars == <<btPc, btCall, btList, btAsked, btResult>>
wsVars == <<kv, wsZone, wsPc, wsReq, wsHit, wsServed>>
shVars == <<shTable, shRaw, shPc, shCall, shPos, shSt, shOut, shOverlap>>
nwVars == <<tgVars, rlVars, bkVars, btVars, wsVars, shVars>>
\* the components up to the scan pipeline
coreVars == <<genVars, scVars, rvVars, aceVars, ftVars, dnsVars, snVars>>
xtVars == <<aceVars, ftVars, dnsVars, snVars, nwVars>>
vars == <<genVars, scVars, rvVars, xtVars>>

(***************************************************************************)
(* Bounds of the model.                                                    *)
(***************************************************************************)
MaxLabelLen == 3
MaxPerCharBound == 2
MaxVariantsBound == 4
MaxDomainLabelLen == 3
MaxAceLabelLen == 3
MaxAceDigits == 5
MaxCalls == 3          \* resolve() calls that can be outstanding at once
MaxConcurrency == 2    \* largest ResolveOptions.concurrency
MaxAnswers == 1        \* longest Answer list of a DNS-over-HTTPS response
MaxScanLabelLen == 2   \* longest label of a scanned domain
MaxTop == 3            \* largest ScanOptions.top

(***************************************************************************)
(* Numbers and characters.                                                 *)
(***************************************************************************)
ScoreUnit == 20

DefaultDanger == ScoreUnit \div 2

Min(a, b) == IF a < b THEN a ELSE b

Max(a, b) == IF a > b THEN a ELSE b

\* Array.prototype.slice(0, n) for n >= 0
SliceTo(s, n) == SubSeq(s, 1, Min(n, Len(s)))

Range(s) == {s[i] : i \in DOMAIN s}

\* code points used below
Ch == [A |-> 65, O |-> 79, a |-> 97, o |-> 111, dot |-> 46, hyphen |-> 45,
       latinAlpha |-> 593, greekAlpha |-> 945, greekOmicron |-> 959, cyrCapA |-> 1040,
       cyrA |-> 1072, cyrO |-> 1086, arabicAlef |-> 1575, devZero |-> 2406,
       thaiZero |-> 3664, hangulI |-> 4469, hanStick |-> 20008]

\* String.prototype.toLowerCase on one code point (ASCII, Greek, Cyrillic)
ToLower(c) ==
    IF (c >= 65 /\ c <= 90) \/ (c >= 913 /\ c <= 939 /\ c # 930)
          \/ (c >= 1040 /\ c <= 1071)
    THEN c + 32
    ELSE IF c >= 1024 /\ c <= 1039 THEN c + 80 ELSE c

\* String.prototype.toUpperCase on one code point (ASCII, Greek, Cyrillic)
ToUpper(c) ==
    IF (c >= 97 /\ c <= 122) \/ (c >= 945 /\ c <= 971 /\ c # 962)
          \/ (c >= 1072 /\ c <= 1103)
    THEN c - 32
    ELSE IF c >= 1104 /\ c <= 1119 THEN c - 80 ELSE c

\* String.prototype.toLowerCase on a string, the result a sequence value
LowerStr(s) == [i \in DOMAIN s |-> ToLower(s[i])] \o <<>>

\* getScript: the first SCRIPT_DETECTORS entry whose script holds the character
getScript(c) ==
    IF (c >= 65 /\ c <= 90) \/ (c >= 97 /\ c <= 122) \/ (c >= 192 /\ c <= 687 /\ c # 215 /\ c # 247)
    THEN "Latin"
    ELSE IF c >= 1024 /\ c <= 1327 THEN "Cyrillic"
    ELSE IF c >= 880 /\ c <= 1023 THEN "Greek"
    ELSE IF c >= 1536 /\ c <= 1791 THEN "Arabic"
    ELSE IF c >= 2304 /\ c <= 2431 /\ c # 2404 /\ c # 2405 THEN "Devanagari"
    ELSE IF c >= 19968 /\ c <= 40959 THEN "Han"
    ELSE IF (c >= 4352 /\ c <= 4607) \/ (c >= 44032 /\ c <= 55203) THEN "Hangul"
    ELSE IF c >= 3585 /\ c <= 3675 /\ c # 3647 THEN "Thai"
    ELSE "Common"

RECURSIVE HexDigits(_, _)
HexDigits(n, width) ==
    IF n = 0 /\ width <= 0 THEN <<>>
    ELSE Append(HexDigits(n \div 16, width - 1), n % 16)

\* toCodepoint: "U+XXXX", kept as the hexadecimal digits padded to four
toCodepoint(c) == HexDigits(c, 4)

(***************************************************************************)
(* The two imported data tables, cut to a sample that has every shape the  *)
(* builder distinguishes: a mapping with no weight (default 0.5, not       *)
(* PVALID), a pair listed under both letter cases with different weights,  *)
(* a pair of two non-ASCII characters, weights whose danger and            *)
(* stableDanger order differently, non-PVALID weights, and a character     *)
(* outside the map that is weighted against both cases of a letter.        *)
(***************************************************************************)
\* CONFUSABLE_MAP_FULL: character -> prototype
CONFUSABLE_MAP_FULL ==
    (Ch.cyrA :> Ch.a) @@ (Ch.greekAlpha :> Ch.a) @@ (Ch.latinAlpha :> Ch.a)
        @@ (Ch.cyrO :> Ch.o) @@ (Ch.cyrCapA :> Ch.A)

Weight(d, s, p) == [danger |-> d, stableDanger |-> s, idnaPvalid |-> p]

\* CONFUSABLE_WEIGHTS: keyA -> keyB -> weight, as a function of <<keyA, keyB>>
CONFUSABLE_WEIGHTS ==
    (<<Ch.cyrA, Ch.a>> :> Weight(20, 16, TRUE))
        @@ (<<Ch.cyrA, Ch.A>> :> Weight(18, 18, FALSE))
        @@ (<<Ch.greekAlpha, Ch.a>> :> Weight(19, 17, TRUE))
        @@ (<<Ch.greekAlpha, Ch.cyrA>> :> Weight(14, 12, TRUE))
        @@ (<<Ch.cyrO, Ch.o>> :> Weight(18, 18, TRUE))
        @@ (<<Ch.greekOmicron, Ch.o>> :> Weight(19, 15, TRUE))
        @@ (<<Ch.greekOmicron, Ch.O>> :> Weight(17, 17, FALSE))

HasWeight(x, y) == <<x, y>> \in DOMAIN CONFUSABLE_WEIGHTS

\* the four-way lookup  weights[c]?.[p] ?? weights[p]?.[c] ??
\* weights[c]?.[P] ?? weights[P]?.[c], with the ?? 0.5 / ?? false defaults
LookupWeight(c, p) ==
    IF HasWeight(c, p) THEN CONFUSABLE_WEIGHTS[<<c, p>>]
    ELSE IF HasWeight(p, c) THEN CONFUSABLE_WEIGHTS[<<p, c>>]
    ELSE IF HasWeight(c, ToUpper(p)) THEN CONFUSABLE_WEIGHTS[<<c, ToUpper(p)>>]
    ELSE IF HasWeight(ToUpper(p), c) THEN CONFUSABLE_WEIGHTS[<<ToUpper(p), c>>]
    ELSE Weight(DefaultDanger, DefaultDanger, FALSE)

(***************************************************************************)
(* buildPrototypeBuckets                                                   *)
(***************************************************************************)
Substitute(c, d, s, p) ==
    [char |-> c, codepoint |-> toCodepoint(c), script |-> getScript(c),
     danger |-> d, stableDanger |-> s, idnaPvalid |-> p]

IndexOfChar(seq, c) ==
    IF \E i \in DOMAIN seq : seq[i].char = c
    THEN CHOOSE i \in DOMAIN seq : seq[i].char = c
    ELSE 0

\* addEdge with the PVALID filter left out
addEdge_NoPvalidFilter(r, includeNonPvalid, from, sub, d, s, p) ==
    IF from = sub THEN r
    ELSE LET b == IF from \in DOMAIN r THEN r[from] ELSE <<>>
             k == IndexOfChar(b, sub)
         IN IF k # 0
            THEN IF s > b[k].stableDanger
                 THEN (from :> [b EXCEPT ![k].danger = d,
                                         ![k].stableDanger = s,
                                         ![k].idnaPvalid = b[k].idnaPvalid \/ p])
                          @@ r
                 ELSE (from :> b) @@ r
            ELSE (from :> Append(b, Substitute(sub, d, s, p))) @@ r

\* addEdge(from, sub, danger, stableDanger, idnaPvalid) on the map r
addEdge(r, includeNonPvalid, from, sub, d, s, p) ==
    IF from = sub THEN r
    ELSE IF ~includeNonPvalid /\ ~p THEN r
    ELSE LET b == IF from \in DOMAIN r THEN r[from] ELSE <<>>
             k == IndexOfChar(b, sub)
         IN IF k # 0
            THEN IF s > b[k].stableDanger
                 THEN (from :> [b EXCEPT ![k].danger = d,
                                         ![k].stableDanger = s,
                                         ![k].idnaPvalid = b[k].idnaPvalid \/ p])
                          @@ r
                 ELSE (from :> b) @@ r
            ELSE (from :> Append(b, Substitute(sub, d, s, p))) @@ r

\* one iteration of the loop over Object.entries(CONFUSABLE_MAP_FULL)
MapEntryEdges(r, includeNonPvalid, char) ==
    LET prototype == CONFUSABLE_MAP_FULL[char]
        w == LookupWeight(char, prototype)
    IN IF char = prototype THEN r
       ELSE addEdge(addEdge(r, includeNonPvalid, prototype, char,
                            w.danger, w.stableDanger, w.idnaPvalid),
                    includeNonPvalid, char, prototype,
                    w.danger, w.stableDanger, w.idnaPvalid)

\* an iteration that adds the edge A -> B only
WeightEntryEdges_ForwardOnly(r, includeNonPvalid, keyA, keyB) ==
    LET weight == CONFUSABLE_WEIGHTS[<<keyA, keyB>>]
    IN addEdge(r, includeNonPvalid, ToLower(keyA), keyB,
               weight.danger, weight.stableDanger, weight.idnaPvalid)

\* one iteration of the loops over CONFUSABLE_WEIGHTS
WeightEntryEdges(r, includeNonPvalid, keyA, keyB) ==
    LET weight == CONFUSABLE_WEIGHTS[<<keyA, keyB>>]
    IN addEdge(addEdge(r, includeNonPvalid, ToLower(keyA), keyB,
                       weight.danger, weight.stableDanger, weight.idnaPvalid),
               includeNonPvalid, ToLower(keyB), keyA,
               weight.danger, weight.stableDanger, weight.idnaPvalid)

ScoreOf(x, useMaxDanger) == IF useMaxDanger THEN x.danger ELSE x.stableDanger

\* Array.prototype.sort((a, b) => key(b) - key(a)) is stable and descending;
\* here on the indices of the array, keys[i] being the key of element i
RECURSIVE InsertDesc(_, _, _)
InsertDesc(sorted, i, keys) ==
    IF sorted = <<>> THEN <<i>>
    ELSE IF keys[Head(sorted)] >= keys[i]
         THEN <<Head(sorted)>> \o InsertDesc(Tail(sorted), i, keys)
         ELSE <<i>> \o sorted

RECURSIVE SortedIndices(_, _)
SortedIndices(n, keys) ==
    IF n = 0 THEN <<>>
    ELSE InsertDesc(SortedIndices(n - 1, keys), n, keys)

SortDesc(s, keys) ==
    LET order == SortedIndices(Len(s), keys)
    IN [i \in DOMAIN s |-> s[order[i]]]

\* the sort always by stableDanger, whatever useMaxDanger says
SortAndCap_AlwaysStable(r, opts) ==
    [proto \in DOMAIN r |->
        LET keys == [i \in DOMAIN r[proto] |-> r[proto][i].stableDanger]
        IN SliceTo(SortDesc(r[proto], keys), opts.maxPerChar)]

\* step 3 of buildPrototypeBuckets: sort every bucket by the score key and cap
SortAndCap(r, opts) ==
    [proto \in DOMAIN r |->
        LET keys == [i \in DOMAIN r[proto] |->
                        ScoreOf(r[proto][i], opts.useMaxDanger)]
        IN SliceTo(SortDesc(r[proto], keys), opts.maxPerChar)]

(***************************************************************************)
(* generateVariants                                                        *)
(***************************************************************************)
\* Math.min(maxPerChar, 5): the cap on the substitutes crossed per position
TwoEditTop == 5

RECURSIVE Pow(_, _)
Pow(b, n) == IF n = 0 THEN 1 ELSE b * Pow(b, n - 1)

RECURSIVE Product(_, _)
Product(subs, useMaxDanger) ==
    IF subs = <<>> THEN 1
    ELSE ScoreOf(Head(subs), useMaxDanger) * Product(Tail(subs), useMaxDanger)

\* The unit of a score computed from n substitutions: the product of n scores
\* has denominator ScoreUnit^n, the penalties 0.1 and 0.9 a factor 10 each.
\* Every computed score is written over the one denominator ScoreDen.
MaxSubs == 3

ScoreDen == Pow(ScoreUnit, MaxSubs) * 100

\* a bucket or Substitution score (a multiple of 1/ScoreUnit) over ScoreDen
OverScoreDen(s) == s * Pow(ScoreUnit, MaxSubs - 1) * 100

\* product * (1 - 0.1 * (subs.length - 1)), over ScoreDen
PenalisedProduct(subs, useMaxDanger) ==
    Product(subs, useMaxDanger) * Pow(ScoreUnit, MaxSubs - Len(subs))
        * (10 - (Len(subs) - 1)) * 10

\* aggregateScore(subs, scoreKey), over ScoreDen
aggregateScore(subs, useMaxDanger) ==
    IF Len(subs) = 0 THEN 0 ELSE PenalisedProduct(subs, useMaxDanger)

\* finalize: variants.sort((a, b) => scoreB - scoreA)
finalize(vs, useMaxDanger) ==
    SortDesc(vs, [i \in DOMAIN vs |->
                     aggregateScore(vs[i].substitutions, useMaxDanger)])

\* makeSubstitution(position, original, sub)
makeSubstitution(position, original, sub) ==
    [position |-> position, original |-> original, replacement |-> sub.char,
     codepoint |-> sub.codepoint, script |-> sub.script, danger |-> sub.danger,
     stableDanger |-> sub.stableDanger, idnaPvalid |-> sub.idnaPvalid]

\* tryAdd without the seen-set check
tryAdd_NoSeenCheck(st, maxVariants, mutated, subs) ==
    IF Len(st.variants) >= maxVariants THEN [st EXCEPT !.ok = FALSE]
    ELSE [variants |-> Append(st.variants,
                              [label |-> mutated, substitutions |-> subs]),
          seen |-> st.seen \cup {mutated},
          ok |-> TRUE]

\* tryAdd answering a duplicate as it answers a full list
tryAdd_DuplicateStops(st, maxVariants, mutated, subs) ==
    IF Len(st.variants) >= maxVariants THEN [st EXCEPT !.ok = FALSE]
    ELSE IF mutated \in st.seen THEN [st EXCEPT !.ok = FALSE]
    ELSE [variants |-> Append(st.variants,
                              [label |-> mutated, substitutions |-> subs]),
          seen |-> st.seen \cup {mutated},
          ok |-> TRUE]

\* tryAdd on the closure state st = [variants, seen, ok]; ok is its return value
tryAdd(st, maxVariants, mutated, subs) ==
    IF Len(st.variants) >= maxVariants THEN [st EXCEPT !.ok = FALSE]
    ELSE IF mutated \in st.seen THEN [st EXCEPT !.ok = TRUE]
    ELSE [variants |-> Append(st.variants,
                              [label |-> mutated, substitutions |-> subs]),
          seen |-> st.seen \cup {mutated},
          ok |-> TRUE]

RECURSIVE Flatten(_)
Flatten(ss) == IF ss = <<>> THEN <<>> ELSE Head(ss) \o Flatten(Tail(ss))

HasBucket(bk, c) == c \in DOMAIN bk

\* the 1-edit pass over the whole bucket, without slice(0, maxPerChar)
OneEditAt_NoSlice(chars, bk, maxPerChar, i) ==
    IF ~HasBucket(bk, chars[i]) THEN <<>>
    ELSE [k \in 1..Len(bk[chars[i]]) |->
             [mutated |-> [chars EXCEPT ![i] = bk[chars[i]][k].char],
              subs |-> <<makeSubstitution(i - 1, chars[i], bk[chars[i]][k])>>]]

\* the candidates of the 1-edit pass at position i (1-based here, i - 1 in the
\* Substitution), in the order the inner loop tries them
OneEditAt(chars, bk, maxPerChar, i) ==
    IF ~HasBucket(bk, chars[i]) THEN <<>>
    ELSE LET topSubs == SliceTo(bk[chars[i]], maxPerChar)
         IN [k \in 1..Len(topSubs) |->
                [mutated |-> [chars EXCEPT ![i] = topSubs[k].char],
                 subs |-> <<makeSubstitution(i - 1, chars[i], topSubs[k])>>]]

OneEditCandidates(chars, bk, maxPerChar) ==
    Flatten([i \in 1..Len(chars) |-> OneEditAt(chars, bk, maxPerChar, i)])

\* the 2-edit pass listing the substitution at j before the one at i
TwoEditAt_HigherFirst(chars, bk, maxPerChar, i, j) ==
    IF ~HasBucket(bk, chars[i]) \/ ~HasBucket(bk, chars[j]) THEN <<>>
    ELSE LET topI == SliceTo(bk[chars[i]], Min(maxPerChar, TwoEditTop))
             topJ == SliceTo(bk[chars[j]], Min(maxPerChar, TwoEditTop))
         IN Flatten([a \in 1..Len(topI) |->
               [b \in 1..Len(topJ) |->
                  [mutated |-> [chars EXCEPT ![i] = topI[a].char,
                                             ![j] = topJ[b].char],
                   subs |-> <<makeSubstitution(j - 1, chars[j], topJ[b]),
                              makeSubstitution(i - 1, chars[i], topI[a])>>]]])

\* the candidates of the 2-edit pass for the position pair i < j
TwoEditAt(chars, bk, maxPerChar, i, j) ==
    IF ~HasBucket(bk, chars[i]) \/ ~HasBucket(bk, chars[j]) THEN <<>>
    ELSE LET topI == SliceTo(bk[chars[i]], Min(maxPerChar, TwoEditTop))
             topJ == SliceTo(bk[chars[j]], Min(maxPerChar, TwoEditTop))
         IN Flatten([a \in 1..Len(topI) |->
               [b \in 1..Len(topJ) |->
                  [mutated |-> [chars EXCEPT ![i] = topI[a].char,
                                             ![j] = topJ[b].char],
                   subs |-> <<makeSubstitution(i - 1, chars[i], topI[a]),
                              makeSubstitution(j - 1, chars[j], topJ[b])>>]]])

TwoEditCandidates(chars, bk, maxPerChar) ==
    Flatten([i \in 1..(Len(chars) - 1) |->
        Flatten([d \in 1..(Len(chars) - i) |->
            TwoEditAt(chars, bk, maxPerChar, i, i + d)])])

\* a pass: tryAdd on each candidate in turn, leaving at the first false
RECURSIVE RunPass(_, _, _, _)
RunPass(st, maxVariants, cands, k) ==
    IF k > Len(cands) \/ ~st.ok THEN st
    ELSE RunPass(tryAdd(st, maxVariants, cands[k].mutated, cands[k].subs),
                 maxVariants, cands, k + 1)

\* the two passes run whatever maxEdits says
Passes_IgnoreMaxEdits(label, opts, bk) ==
    LET chars == LowerStr(label)
        start == [variants |-> <<>>, seen |-> {}, ok |-> TRUE]
        one == RunPass(start, opts.maxVariants,
                       OneEditCandidates(chars, bk, opts.maxPerChar), 1)
    IN IF one.ok
       THEN RunPass(one, opts.maxVariants,
                    TwoEditCandidates(chars, bk, opts.maxPerChar), 1)
       ELSE one

\* the two passes of generateVariants: the closure state when the function
\* returns; ok is FALSE when a tryAdd answered false (an early return)
Passes(label, opts, bk) ==
    LET chars == LowerStr(label)
        start == [variants |-> <<>>, seen |-> {}, ok |-> TRUE]
        one == RunPass(start, opts.maxVariants,
                       OneEditCandidates(chars, bk, opts.maxPerChar), 1)
    IN IF one.ok /\ opts.maxEdits >= 2
       THEN RunPass(one, opts.maxVariants,
                    TwoEditCandidates(chars, bk, opts.maxPerChar), 1)
       ELSE one

\* the early returns handing back the list as accepted, unsorted
generateVariants_EarlyReturnUnsorted(label, opts, bk) ==
    LET end == Passes(label, opts, bk)
    IN IF end.ok THEN finalize(end.variants, opts.useMaxDanger)
       ELSE end.variants

\* a cap that keeps the maxVariants highest-scoring candidates overall
generateVariants_TopScoring(label, opts, bk) ==
    SliceTo(finalize(Passes(label, [opts EXCEPT !.maxVariants = 1000], bk).variants,
                     opts.useMaxDanger),
            opts.maxVariants)

\* every return of generateVariants is return finalize(variants, scoreKey)
generateVariants(label, opts, bk) ==
    finalize(Passes(label, opts, bk).variants, opts.useMaxDanger)

(***************************************************************************)
(* computeDangerScore                                                      *)
(***************************************************************************)
ScriptsOf(subs) == {subs[i].script : i \in DOMAIN subs}

\* computeDangerScore without the mixed-script penalty
computeDangerScore_NoScriptPenalty(substitutions, useMaxDanger) ==
    IF Len(substitutions) = 0 THEN 0
    ELSE Max(0, Min(ScoreDen, PenalisedProduct(substitutions, useMaxDanger)))

\* computeDangerScore(substitutions, options), over ScoreDen
computeDangerScore(substitutions, useMaxDanger) ==
    IF Len(substitutions) = 0 THEN 0
    ELSE LET editScore == PenalisedProduct(substitutions, useMaxDanger)
             score == IF Cardinality(ScriptsOf(substitutions)) > 1
                      THEN (editScore * 9) \div 10
                      ELSE editScore
         IN Max(0, Min(ScoreDen, score))

\* a lower-case letter, and an upper-case letter whose lower case has a bucket
\* in the built tables and none in the supplied ones
LabelChars == {Ch.a, Ch.O}

RECURSIVE StringsOver(_, _)
StringsOver(alphabet, n) ==
    IF n = 0 THEN {<<>>}
    ELSE LET shorter == StringsOver(alphabet, n - 1)
         IN shorter \cup {Append(s, c) : s \in {x \in shorter : Len(x) = n - 1},
                                         c \in alphabet}

Labels == StringsOver(LabelChars, MaxLabelLen)

GenerateOptions ==
    [maxEdits : {1, 2}, maxPerChar : 0..MaxPerCharBound,
     maxVariants : 0..MaxVariantsBound, useMaxDanger : BOOLEAN]

\* bucket tables a caller hands to generateVariants without building them:
\* unsorted, with a character listed twice, with a character listed for itself
SuppliedTables ==
    { (Ch.a :> <<Substitute(Ch.cyrA, 16, 16, TRUE),
                 Substitute(Ch.greekAlpha, 19, 17, TRUE),
                 Substitute(Ch.cyrA, 20, 18, TRUE)>>),
      (Ch.a :> <<Substitute(Ch.a, 20, 20, TRUE),
                 Substitute(Ch.cyrA, 20, 16, TRUE)>>) }

BuildOptions ==
    [includeNonPvalid : BOOLEAN, maxPerChar : 0..MaxPerCharBound,
     useMaxDanger : BOOLEAN]

NoOpts == [includeNonPvalid |-> FALSE, maxPerChar |-> 0, useMaxDanger |-> FALSE]

EmptyMap == [x \in {} |-> <<>>]

\* buildPrototypeBuckets is entered with some options, or a caller holds a table
InitGen ==
    /\ \/ /\ pc = "build"
          /\ buildOpts \in BuildOptions
          /\ pendingMap = DOMAIN CONFUSABLE_MAP_FULL
          /\ pendingW = DOMAIN CONFUSABLE_WEIGHTS
          /\ buckets = EmptyMap
       \/ /\ pc = "built"
          /\ buildOpts = NoOpts
          /\ pendingMap = {}
          /\ pendingW = {}
          /\ buckets \in SuppliedTables
    /\ raw = EmptyMap
    /\ built = FALSE
    /\ genLabel = <<>>
    /\ genOpts = [maxEdits |-> 0, maxPerChar |-> 0, maxVariants |-> 0,
                  useMaxDanger |-> FALSE]
    /\ variants = <<>>

InitScore ==
    /\ scPc = "idle"
    /\ scSubs = <<>>
    /\ scUseMax = FALSE
    /\ scResult = 0

InitReverse ==
    /\ rvPc = "idle"
    /\ rvDomain = <<>>
    /\ rvResult = [threw |-> FALSE, domain |-> <<>>, impersonates |-> <<>>]

\* the loop over CONFUSABLE_MAP_FULL, entries in any order
InsertMapEntry(char) ==
    /\ pc = "build"
    /\ char \in pendingMap
    /\ raw' = MapEntryEdges(raw, buildOpts.includeNonPvalid, char)
    /\ pendingMap' = pendingMap \ {char}
    /\ UNCHANGED <<pc, buildOpts, pendingW, buckets, built, genLabel, genOpts,
                   variants>>

\* the loops over CONFUSABLE_WEIGHTS, entries in any order, after the first loop
InsertWeightEntry(key) ==
    /\ pc = "build"
    /\ pendingMap = {}
    /\ key \in pendingW
    /\ raw' = WeightEntryEdges(raw, buildOpts.includeNonPvalid, key[1], key[2])
    /\ pendingW' = pendingW \ {key}
    /\ UNCHANGED <<pc, buildOpts, pendingMap, buckets, built, genLabel, genOpts,
                   variants>>

\* the sort-and-cap loop and the return of buildPrototypeBuckets
FinishBuild ==
    /\ pc = "build"
    /\ pendingMap = {}
    /\ pendingW = {}
    /\ buckets' = SortAndCap(raw, buildOpts)
    /\ raw' = EmptyMap
    /\ built' = TRUE
    /\ pc' = "built"
    /\ UNCHANGED <<buildOpts, pendingMap, pendingW, genLabel, genOpts, variants>>

\* a call generateVariants(label, opts, buckets)
Generate(label, opts) ==
    /\ pc = "built"
    /\ genLabel' = label
    /\ genOpts' = opts
    /\ variants' = generateVariants(label, opts, buckets)
    /\ pc' = "generated"
    /\ UNCHANGED <<buildOpts, pendingMap, pendingW, raw, buckets, built>>

InitAce ==
    /\ acePc = "idle"
    /\ aceInput = <<>>
    /\ aceOutput = <<>>
    /\ aceDecoded = <<>>

\* the components added after the first three, at rest
InitFont ==
    /\ ftPc = "idle"
    /\ ftSubs = <<>>
    /\ ftBest = [found |-> FALSE, font |-> "", ssim |-> 0]
    /\ ftRaw = <<>>
    /\ ftOpts = [useMaxDanger |-> FALSE, font |-> ""]
    /\ ftScored = <<>>

Calls == 1..MaxCalls

DnsResultOf_ParkedFirst(a, aaaa, mx, ns) ==
    LET registered == Len(a) > 0 \/ Len(aaaa) > 0 \/ Len(ns) > 0
        hasMx == Len(mx) > 0
    IN [registered |-> registered, a |-> a, aaaa |-> aaaa, mx |-> mx, ns |-> ns,
        hasMx |-> hasMx,
        threatLevel |-> IF registered THEN "parked"
                        ELSE IF hasMx THEN "active" ELSE "unregistered"]

\* registered, hasMx and threatLevel from the four record lists
DnsResultOf(a, aaaa, mx, ns) ==
    LET registered == Len(a) > 0 \/ Len(aaaa) > 0 \/ Len(ns) > 0
        hasMx == Len(mx) > 0
    IN [registered |-> registered, a |-> a, aaaa |-> aaaa, mx |-> mx, ns |-> ns,
        hasMx |-> hasMx,
        threatLevel |-> IF hasMx THEN "active"
                        ELSE IF registered THEN "parked" ELSE "unregistered"]

\* no DnsResult returned yet
NoDnsResult ==
    [registered |-> FALSE, a |-> <<>>, aaaa |-> <<>>, mx |-> <<>>, ns |-> <<>>,
     hasMx |-> FALSE, threatLevel |-> ""]

\* createNodeResolver: a fresh Semaphore with max = concurrency
createNodeResolver(concurrency) ==
    /\ semMax = concurrency
    /\ semRunning = 0
    /\ semQueue = <<>>
    /\ callPc = [call \in Calls |-> "idle"]
    /\ resolver = "node"
    /\ dnsResult = NoDnsResult

\* createDohResolver: no limiter
createDohResolver ==
    /\ semMax = 1
    /\ semRunning = 0
    /\ semQueue = <<>>
    /\ callPc = [call \in Calls |-> "idle"]
    /\ resolver = "doh"
    /\ dnsResult = NoDnsResult

NoScanOptions ==
    [includeNonPvalid |-> FALSE, maxPerChar |-> 0, useMaxDanger |-> FALSE,
     maxEdits |-> 1, maxVariants |-> 0, top |-> 0, threshold |-> 0,
     tlds |-> <<>>, tldVariants |-> FALSE, font |-> ""]

NoScanResult ==
    [original |-> <<>>, label |-> <<>>, tld |-> <<>>, totalGenerated |-> 0,
     variants |-> <<>>]

InitScan ==
    /\ snPc = "idle"
    /\ snDomain = <<>>
    /\ snOpts = NoScanOptions
    /\ snResult = NoScanResult

InitTlds ==
    /\ tgPc = "idle"
    /\ tgBase = <<>>
    /\ tgVariants = FALSE
    /\ tgChars = <<>>
    /\ tgResult = <<>>

NoCall == [ip |-> "", cost |-> 0, allowed |-> TRUE]

InitRateLimit ==
    /\ rateLimits = <<>>
    /\ rlNow = 0
    /\ rlLast = NoCall
    /\ rlServed = <<>>
    /\ rlCalls = 0

\* cachedBuckets = null
NoBuckets ==
    [built |-> FALSE,
     config |-> [includeNonPvalid |-> FALSE, maxPerChar |-> 0, useMaxDanger |-> FALSE],
     table |-> <<>>]

NoBucketCall ==
    [cache |-> "", label |-> <<>>,
     options |-> [maxEdits |-> 0, maxPerChar |-> 0, maxVariants |-> 0,
                  useMaxDanger |-> FALSE, includeNonPvalid |-> FALSE],
     config |-> NoBuckets.config, variants |-> <<>>]

InitBuckets ==
    /\ wkBuckets = NoBuckets
    /\ dfBuckets = NoBuckets
    /\ bkPc = "idle"
    /\ bkCall = NoBucketCall

NoBatchCall ==
    [kind |-> "", domain |-> <<>>, top |-> 0, threshold |-> 0, resolve |-> FALSE,
     concurrency |-> 0]

InitBatchState ==
    /\ btPc = "idle"
    /\ btCall = NoBatchCall
    /\ btList = <<>>
    /\ btAsked = <<>>
    /\ btResult = NoScanResult

NoRequest ==
    [domain |-> <<>>, resolve |-> FALSE, font |-> "", useMaxDanger |-> FALSE,
     threshold |-> 0, top |-> 0]

InitServe ==
    /\ kv = <<>>
    /\ wsZone = "none"
    /\ wsPc = "idle"
    /\ wsReq = NoRequest
    /\ wsHit = FALSE
    /\ wsServed = NoScanResult

NoSharedCall ==
    [kind |-> "", label |-> <<>>, maxEdits |-> 0, maxPerChar |-> 0,
     useMaxDanger |-> FALSE, tld |-> <<>>, font |-> "", n |-> 0]

\* the closure state of a generation call at its start
NoProgress == [variants |-> <<>>, seen |-> {}, ok |-> TRUE]

InitSharing ==
    /\ shTable = <<>>
    /\ shRaw = <<>>
    /\ shPc = [c \in {1, 2} |-> "idle"]
    /\ shCall = [c \in {1, 2} |-> NoSharedCall]
    /\ shPos = [c \in {1, 2} |-> 1]
    /\ shSt = [c \in {1, 2} |-> NoProgress]
    /\ shOut = [c \in {1, 2} |-> <<>>]
    /\ shOverlap = [c \in {1, 2} |-> FALSE]

InitNew ==
    InitTlds /\ InitRateLimit /\ InitBuckets /\ InitBatchState /\ InitServe /\ InitSharing

InitRest == InitAce /\ InitFont /\ createNodeResolver(1) /\ InitScan /\ InitNew

Init == InitGen /\ InitScore /\ InitReverse /\ InitRest

(***************************************************************************)
(* The scorer on its own: computeDangerScore on substitution lists.        *)
(***************************************************************************)
\* the forward pipeline at rest
GenIdle ==
    /\ pc = "idle"
    /\ buildOpts = NoOpts
    /\ pendingMap = {}
    /\ pendingW = {}
    /\ raw = EmptyMap
    /\ buckets = EmptyMap
    /\ built = FALSE
    /\ genLabel = <<>>
    /\ genOpts = [maxEdits |-> 0, maxPerChar |-> 0, maxVariants |-> 0,
                  useMaxDanger |-> FALSE]
    /\ variants = <<>>

\* Substitutions a caller may pass: scores in [0, 1], three scripts
ScoreSubs ==
    { makeSubstitution(0, Ch.a, Substitute(Ch.cyrA, 20, 18, TRUE)),
      makeSubstitution(1, Ch.o, Substitute(Ch.cyrO, 18, 17, TRUE)),
      makeSubstitution(2, Ch.a, Substitute(Ch.greekAlpha, 19, 17, TRUE)),
      makeSubstitution(3, Ch.a, Substitute(Ch.latinAlpha, 10, 10, FALSE)),
      makeSubstitution(4, Ch.o, Substitute(Ch.cyrO, 0, 0, FALSE)) }

SubstitutionLists == StringsOver(ScoreSubs, MaxSubs)

\* a call computeDangerScore(substitutions, {useMaxDanger})
CallComputeDangerScore(substitutions, useMaxDanger) ==
    /\ scPc = "idle"
    /\ scSubs' = substitutions
    /\ scUseMax' = useMaxDanger
    /\ scResult' = computeDangerScore(substitutions, useMaxDanger)
    /\ scPc' = "scored"

\* the caller takes the number; the scorer keeps nothing
ScoreTaken ==
    /\ scPc = "scored"
    /\ scPc' = "idle"
    /\ scSubs' = <<>>
    /\ scUseMax' = FALSE
    /\ scResult' = 0

InitScorer == GenIdle /\ InitScore /\ InitReverse /\ InitRest

NextScorer ==
    \/ \E substitutions \in SubstitutionLists, useMaxDanger \in BOOLEAN :
          CallComputeDangerScore(substitutions, useMaxDanger)
             /\ UNCHANGED <<genVars, rvVars, xtVars>>
    \/ ScoreTaken /\ UNCHANGED <<genVars, rvVars, xtVars>>

SpecScorer == InitScorer /\ [][NextScorer]_vars

(***************************************************************************)
(* splitDomain                                                             *)
(***************************************************************************)
StartsWith(s, prefix) ==
    Len(s) >= Len(prefix) /\ SubSeq(s, 1, Len(prefix)) = prefix

EndsWith(s, suffix) ==
    Len(s) >= Len(suffix)
        /\ SubSeq(s, Len(s) - Len(suffix) + 1, Len(s)) = suffix

\* the multi-part TLDs, in the order of the list
knownMultiPart ==
    << <<99, 111, 46, 117, 107>>,           \* co.uk
       <<99, 111, 109, 46, 97, 117>>,       \* com.au
       <<99, 111, 46, 110, 122>>,           \* co.nz
       <<99, 111, 46, 106, 112>>,           \* co.jp
       <<99, 111, 109, 46, 98, 114>>,       \* com.br
       <<99, 111, 46, 107, 114>>,           \* co.kr
       <<99, 111, 46, 105, 110>>,           \* co.in
       <<99, 111, 109, 46, 109, 120>>,      \* com.mx
       <<99, 111, 109, 46, 99, 110>>,       \* com.cn
       <<111, 114, 103, 46, 117, 107>>,     \* org.uk
       <<110, 101, 116, 46, 97, 117>>,      \* net.au
       <<97, 99, 46, 117, 107>> >>          \* ac.uk

\* the TLD used when the domain has no dot: "com"
DefaultTld == <<99, 111, 109>>

\* String.prototype.lastIndexOf(c), 0-based, -1 when absent
LastIndexOf(s, c) ==
    IF \E i \in DOMAIN s : s[i] = c
    THEN (CHOOSE i \in DOMAIN s : s[i] = c /\ \A j \in DOMAIN s : s[j] = c => j <= i) - 1
    ELSE -1

splitDomain(domain) ==
    LET lowered == LowerStr(domain)
        lower == IF Len(lowered) > 0 /\ lowered[Len(lowered)] = Ch.dot
                 THEN SubSeq(lowered, 1, Len(lowered) - 1)
                 ELSE lowered
        hits == {n \in DOMAIN knownMultiPart :
                    EndsWith(lower, <<Ch.dot>> \o knownMultiPart[n])}
        lastDot == LastIndexOf(lower, Ch.dot)
    IN IF hits # {}
       THEN LET tld == knownMultiPart[CHOOSE n \in hits : \A m \in hits : n <= m]
            IN [label |-> SubSeq(lower, 1, Len(lower) - (Len(tld) + 1)),
                tld |-> tld]
       ELSE IF lastDot = -1 THEN [label |-> lower, tld |-> DefaultTld]
       ELSE [label |-> SubSeq(lower, 1, lastDot),
             tld |-> SubSeq(lower, lastDot + 2, Len(lower))]

(***************************************************************************)
(* decodePunycodeLabel: the Bootstring decoder                             *)
(***************************************************************************)
BASE == 36
TMIN == 1
TMAX == 26
SKEW == 38
DAMP == 700
INITIAL_BIAS == 72
INITIAL_N == 128

\* the largest code point String.fromCodePoint accepts
MaxCodePoint == 1114111

\* "xn--"
AcePrefix == <<120, 110, 45, 45>>

RECURSIVE AdaptLoop(_, _)
AdaptLoop(delta, k) ==
    IF 2 * delta > (BASE - TMIN) * TMAX
    THEN AdaptLoop(delta \div (BASE - TMIN), k + BASE)
    ELSE k + ((BASE - TMIN + 1) * delta) \div (delta + SKEW)

adapt(delta, numPoints, first) ==
    LET d1 == IF first THEN delta \div DAMP ELSE delta \div 2
    IN AdaptLoop(d1 + d1 \div numPoints, 0)

\* a digitValue reading "0".."9" as 0..9
digitValue_DigitsFromZero(cp) ==
    IF cp >= 48 /\ cp <= 57 THEN cp - 48
    ELSE IF cp >= 65 /\ cp <= 90 THEN cp - 65
    ELSE IF cp >= 97 /\ cp <= 122 THEN cp - 97
    ELSE BASE

digitValue(cp) ==
    IF cp >= 48 /\ cp <= 57 THEN cp - 48 + 26
    ELSE IF cp >= 65 /\ cp <= 90 THEN cp - 65
    ELSE IF cp >= 97 /\ cp <= 122 THEN cp - 97
    ELSE BASE

\* the inner while (true) loop: consumes digits, returns the new i and pos
RECURSIVE DigitLoop(_, _, _, _, _, _)
DigitLoop(encoded, i, w, k, pos, bias) ==
    IF pos >= Len(encoded) THEN [i |-> i, pos |-> pos]
    ELSE LET digit == digitValue(encoded[pos + 1])
             i2 == i + digit * w
             t == IF k <= bias THEN TMIN
                  ELSE IF k >= bias + TMAX THEN TMAX ELSE k - bias
         IN IF digit >= BASE THEN [i |-> i, pos |-> pos + 1]
            ELSE IF digit < t THEN [i |-> i2, pos |-> pos + 1]
            ELSE DigitLoop(encoded, i2, w * (BASE - t), k + BASE, pos + 1, bias)

\* output.splice(i, 0, c) with i 0-based
Splice(output, i, c) ==
    SubSeq(output, 1, i) \o <<c>> \o SubSeq(output, i + 1, Len(output))

\* the outer while loop; threw is String.fromCodePoint's RangeError
RECURSIVE DecodeLoop(_, _, _, _, _, _)
DecodeLoop(encoded, n, bias, i, output, pos) ==
    IF pos >= Len(encoded) THEN [threw |-> FALSE, output |-> output]
    ELSE LET r == DigitLoop(encoded, i, 1, BASE, pos, bias)
             len == Len(output) + 1
             bias2 == adapt(r.i - i, len, i = 0)
             n2 == n + r.i \div len
             i2 == r.i % len
         IN IF n2 > MaxCodePoint THEN [threw |-> TRUE, output |-> output]
            ELSE DecodeLoop(encoded, n2, bias2, i2 + 1,
                            Splice(output, i2, n2), r.pos)

\* output.join("") read back as code points: a high surrogate followed by a low
\* surrogate is one code point of the string
RECURSIVE JoinChars(_)
JoinChars(output) ==
    IF Len(output) < 2 THEN output
    ELSE IF output[1] >= 55296 /\ output[1] <= 56319
              /\ output[2] >= 56320 /\ output[2] <= 57343
    THEN <<65536 + (output[1] - 55296) * 1024 + (output[2] - 56320)>>
            \o JoinChars(SubSeq(output, 3, Len(output)))
    ELSE <<output[1]>> \o JoinChars(SubSeq(output, 2, Len(output)))

decodePunycodeLabel(input) ==
    IF ~StartsWith(input, AcePrefix) THEN [threw |-> FALSE, output |-> input]
    ELSE LET encoded == SubSeq(input, 5, Len(input))
             lastDelim == LastIndexOf(encoded, Ch.hyphen)
             basicChars == IF lastDelim > 0 THEN SubSeq(encoded, 1, lastDelim)
                           ELSE <<>>
             pos == IF lastDelim > 0 THEN lastDelim + 1 ELSE 0
             r == DecodeLoop(encoded, INITIAL_N, INITIAL_BIAS, 0, basicChars, pos)
         IN [threw |-> r.threw, output |-> JoinChars(r.output)]

(***************************************************************************)
(* reverseScan                                                             *)
(***************************************************************************)
\* /^[a-z0-9]$/ on a one-character prototype
IsLowerAlnum(c) == (c >= 97 /\ c <= 122) \/ (c >= 48 /\ c <= 57)

\* a loop that records the substitution and leaves the character in place
RECURSIVE ScanChars_KeepsChar(_, _)
ScanChars_KeepsChar(chars, n) ==
    IF n = 0 THEN [substitutions |-> <<>>, canonicalChars |-> <<>>]
    ELSE LET prev == ScanChars_KeepsChar(chars, n - 1)
             ch == chars[n]
             known == ch \in DOMAIN CONFUSABLE_MAP_FULL
             ascii == IF known THEN CONFUSABLE_MAP_FULL[ch] ELSE 0
         IN IF known /\ IsLowerAlnum(ascii) /\ ch # ascii
            THEN LET w == LookupWeight(ch, ascii)
                 IN [substitutions |->
                        Append(prev.substitutions,
                               [position |-> n - 1, original |-> ascii,
                                replacement |-> ch,
                                codepoint |-> toCodepoint(ch),
                                script |-> getScript(ch),
                                danger |-> w.danger,
                                stableDanger |-> w.stableDanger,
                                idnaPvalid |-> w.idnaPvalid]),
                     canonicalChars |-> Append(prev.canonicalChars, ch)]
            ELSE [substitutions |-> prev.substitutions,
                  canonicalChars |-> Append(prev.canonicalChars, ch)]

\* the for loop over the characters of the decoded label, up to index n
RECURSIVE ScanChars(_, _)
ScanChars(chars, n) ==
    IF n = 0 THEN [substitutions |-> <<>>, canonicalChars |-> <<>>]
    ELSE LET prev == ScanChars(chars, n - 1)
             ch == chars[n]
             known == ch \in DOMAIN CONFUSABLE_MAP_FULL
             ascii == IF known THEN CONFUSABLE_MAP_FULL[ch] ELSE 0
         IN IF known /\ IsLowerAlnum(ascii) /\ ch # ascii
            THEN LET w == LookupWeight(ch, ascii)
                 IN [substitutions |->
                        Append(prev.substitutions,
                               [position |-> n - 1, original |-> ascii,
                                replacement |-> ch,
                                codepoint |-> toCodepoint(ch),
                                script |-> getScript(ch),
                                danger |-> w.danger,
                                stableDanger |-> w.stableDanger,
                                idnaPvalid |-> w.idnaPvalid]),
                     canonicalChars |-> Append(prev.canonicalChars, ascii)]
            ELSE [substitutions |-> prev.substitutions,
                  canonicalChars |-> Append(prev.canonicalChars, ch)]

RECURSIVE SumStableDanger(_, _)
SumStableDanger(subs, n) ==
    IF n = 0 THEN 0 ELSE subs[n].stableDanger + SumStableDanger(subs, n - 1)

RECURSIVE SumDanger(_, _)
SumDanger(subs, n) ==
    IF n = 0 THEN 0 ELSE subs[n].danger + SumDanger(subs, n - 1)

\* a similarity averaging danger in place of stableDanger
Similarity_OfDanger(substitutions) ==
    IF Len(substitutions) > 0
    THEN [num |-> SumDanger(substitutions, Len(substitutions)),
          den |-> Len(substitutions)]
    ELSE [num |-> 0, den |-> 1]

\* the quotient total / count, kept exact as numerator and denominator;
\* 0 is 0 / 1
Similarity(substitutions) ==
    IF Len(substitutions) > 0
    THEN [num |-> SumStableDanger(substitutions, Len(substitutions)),
          den |-> Len(substitutions)]
    ELSE [num |-> 0, den |-> 1]

NoResult == [threw |-> FALSE, domain |-> <<>>, impersonates |-> <<>>]

\* reverseScan(domain); threw is the decoder's RangeError passing through.
\* The result's punycode field, the URL API's encoding of the input, is not
\* part of the record.
reverseScan(domain) ==
    LET parts == splitDomain(domain)
        decoded == IF StartsWith(parts.label, AcePrefix)
                   THEN decodePunycodeLabel(parts.label)
                   ELSE [threw |-> FALSE, output |-> parts.label]
        chars == decoded.output
        scanned == ScanChars(chars, Len(chars))
        canonicalDomain == scanned.canonicalChars \o <<Ch.dot>> \o parts.tld
    IN IF decoded.threw THEN [NoResult EXCEPT !.threw = TRUE]
       ELSE [threw |-> FALSE,
             domain |-> domain,
             impersonates |->
                IF Len(scanned.substitutions) > 0
                THEN << [domain |-> canonicalDomain,
                         similarity |-> Similarity(scanned.substitutions),
                         substitutions |-> scanned.substitutions] >>
                ELSE <<>>]

\* characters of the domains handed to reverseScan
DomainChars == {Ch.a, Ch.O, Ch.cyrA, Ch.greekAlpha, Ch.latinAlpha}

\* ACE labels: xn--80a, xn--a-frb8g (Cyrillic a, "a", Cyrillic capital A),
\* xn--pypal-4ve, xn--kna71e4k (Cyrillic a, Greek alpha, Latin alpha), and
\* xn--99999 whose digits run past the last code point
AceLabels ==
    { AcePrefix \o <<56, 48, 97>>,
      AcePrefix \o <<97, 45, 102, 114, 98, 56, 103>>,
      AcePrefix \o <<112, 121, 112, 97, 108, 45, 52, 118, 101>>,
      AcePrefix \o <<107, 110, 97, 55, 49, 101, 52, 107>>,
      AcePrefix \o <<57, 57, 57, 57, 57>> }

\* nothing, ".com", ".co.uk", and a trailing dot
DomainSuffixes ==
    { <<>>, <<46, 99, 111, 109>>, <<46, 99, 111, 46, 117, 107>>,
      <<46, 99, 111, 109, 46>> }

\* labels behind a subdomain: a.xn--80a and its Unicode form
SubdomainLabels ==
    { <<Ch.a, Ch.dot>> \o AcePrefix \o <<56, 48, 97>>,
      <<Ch.a, Ch.dot, Ch.cyrA>> }

ScanDomains ==
    { l \o s : l \in (StringsOver(DomainChars, MaxDomainLabelLen) \ {<<>>})
                      \cup AceLabels \cup SubdomainLabels,
               s \in DomainSuffixes }

CallReverseScan(domain) ==
    /\ rvPc = "idle"
    /\ rvDomain' = domain
    /\ rvResult' = reverseScan(domain)
    /\ rvPc' = IF reverseScan(domain).threw THEN "threw" ELSE "returned"

\* the caller takes the result or catches the error
ReverseScanDone ==
    /\ rvPc \in {"returned", "threw"}
    /\ rvPc' = "idle"
    /\ rvDomain' = <<>>
    /\ rvResult' = NoResult

InitReverser == GenIdle /\ InitScore /\ InitReverse /\ InitRest

NextReverser ==
    \/ \E domain \in ScanDomains :
          CallReverseScan(domain) /\ UNCHANGED <<genVars, scVars, xtVars>>
    \/ ReverseScanDone /\ UNCHANGED <<genVars, scVars, xtVars>>

SpecReverser == InitReverser /\ [][NextReverser]_vars

(***************************************************************************)
(* toPunycode and fromPunycode: the ACE codec                              *)
(***************************************************************************)
\* String.prototype.split(c)
RECURSIVE SplitOn(_, _)
SplitOn(s, c) ==
    IF \A i \in DOMAIN s : s[i] # c THEN <<s>>
    ELSE LET i == CHOOSE k \in DOMAIN s :
                     s[k] = c /\ \A j \in 1..(k - 1) : s[j] # c
         IN <<SubSeq(s, 1, i - 1)>> \o SplitOn(SubSeq(s, i + 1, Len(s)), c)

\* Array.prototype.join(c)
RECURSIVE JoinWith(_, _)
JoinWith(parts, c) ==
    IF Len(parts) = 0 THEN <<>>
    ELSE IF Len(parts) = 1 THEN parts[1]
    ELSE parts[1] \o <<c>> \o JoinWith(Tail(parts), c)

IsBasic(c) == c < INITIAL_N

\* the code point of a Bootstring digit: a-z for 0..25, 0-9 for 26..35
EncodeDigit(d) == IF d < 26 THEN 97 + d ELSE 48 + (d - 26)

Threshold(k, bias) ==
    IF k <= bias THEN TMIN ELSE IF k >= bias + TMAX THEN TMAX ELSE k - bias

\* a delta as a generalized variable-length integer
RECURSIVE EncodeVarInt(_, _, _)
EncodeVarInt(q, k, bias) ==
    LET t == Threshold(k, bias)
    IN IF q < t THEN <<EncodeDigit(q)>>
       ELSE <<EncodeDigit(t + ((q - t) % (BASE - t)))>>
               \o EncodeVarInt((q - t) \div (BASE - t), k + BASE, bias)

\* one pass over the input for the code point n; st = [delta, bias, h, out]
RECURSIVE EncodePass(_, _, _, _, _)
EncodePass(input, n, b, st, j) ==
    IF j > Len(input) THEN st
    ELSE IF input[j] < n
    THEN EncodePass(input, n, b, [st EXCEPT !.delta = st.delta + 1], j + 1)
    ELSE IF input[j] = n
    THEN EncodePass(input, n, b,
                    [delta |-> 0,
                     bias |-> adapt(st.delta, st.h + 1, st.h = b),
                     h |-> st.h + 1,
                     out |-> st.out \o EncodeVarInt(st.delta, BASE, st.bias)],
                    j + 1)
    ELSE EncodePass(input, n, b, st, j + 1)

RECURSIVE EncodeLoop(_, _, _, _)
EncodeLoop(input, n, b, st) ==
    IF st.h >= Len(input) THEN st.out
    ELSE LET rest == {c \in Range(input) : c >= n}
             m == CHOOSE c \in rest : \A d \in rest : c <= d
             st1 == [st EXCEPT !.delta = st.delta + (m - n) * (st.h + 1)]
             st2 == EncodePass(input, m, b, st1, 1)
         IN EncodeLoop(input, m + 1, b, [st2 EXCEPT !.delta = st2.delta + 1])

\* the Bootstring encoding of one label
encodePunycodeLabel(label) ==
    LET basicChars == SelectSeq(label, IsBasic)
        b == Len(basicChars)
    IN EncodeLoop(label, INITIAL_N, b,
                  [delta |-> 0, bias |-> INITIAL_BIAS, h |-> b,
                   out |-> IF b > 0 THEN basicChars \o <<Ch.hyphen>>
                           ELSE basicChars])

\* one label of the host as the URL API writes it
ToAsciiLabel(label) ==
    IF \A i \in DOMAIN label : IsBasic(label[i]) THEN label
    ELSE AcePrefix \o encodePunycodeLabel(label)

\* toPunycode(domain): the hostname of new URL("http://" + domain), which is
\* lower-cased and has every non-ASCII label in ACE form; an empty host makes
\* the URL constructor throw and the input comes back
toPunycode(domain) ==
    IF domain = <<>> THEN domain
    ELSE LET labels == SplitOn(LowerStr(domain), Ch.dot)
         IN JoinWith([n \in DOMAIN labels |-> ToAsciiLabel(labels[n])], Ch.dot)

\* fromPunycode(domain): every label decoded; threw is the decoder's RangeError
fromPunycode(domain) ==
    LET labels == SplitOn(domain, Ch.dot)
        decoded == [n \in DOMAIN labels |-> decodePunycodeLabel(labels[n])]
    IN [threw |-> \E n \in DOMAIN decoded : decoded[n].threw,
        output |-> JoinWith([n \in DOMAIN decoded |-> decoded[n].output], Ch.dot)]

\* characters of the labels handed to toPunycode: basic and non-basic
AceChars == {Ch.a, Ch.O, Ch.hyphen, Ch.cyrA, Ch.greekAlpha}

\* nothing and ".com"
AceSuffixes == { <<>>, <<46, 99, 111, 109>> }

AceDomains ==
    { l \o s : l \in StringsOver(AceChars, MaxAceLabelLen) \ {<<>>},
               s \in AceSuffixes }

\* characters of hand-made ACE payloads: the largest digit, the smallest
\* digit, the delimiter and a character that is no digit ("9", "a", "-", "!")
PayloadChars == {57, 97, 45, 33}

AcePayloads == { AcePrefix \o s : s \in StringsOver(PayloadChars, MaxAceDigits) }

CallToPunycode(domain) ==
    /\ acePc = "idle"
    /\ aceInput' = domain
    /\ aceOutput' = toPunycode(domain)
    /\ aceDecoded' = <<>>
    /\ acePc' = "encoded"

\* fromPunycode on what toPunycode returned
DecodeEncoded ==
    /\ acePc = "encoded"
    /\ aceDecoded' = fromPunycode(aceOutput).output
    /\ acePc' = IF fromPunycode(aceOutput).threw THEN "threw" ELSE "decoded"
    /\ UNCHANGED <<aceInput, aceOutput>>

\* fromPunycode on a string that no encoder made
CallFromPunycode(input) ==
    /\ acePc = "idle"
    /\ aceInput' = <<>>
    /\ aceOutput' = input
    /\ aceDecoded' = fromPunycode(input).output
    /\ acePc' = IF fromPunycode(input).threw THEN "threw" ELSE "decoded"

AceDone ==
    /\ acePc \in {"decoded", "threw"}
    /\ acePc' = "idle"
    /\ aceInput' = <<>>
    /\ aceOutput' = <<>>
    /\ aceDecoded' = <<>>

InitCodec == GenIdle /\ InitScore /\ InitReverse /\ InitRest

NextCodec ==
    \/ \E domain \in AceDomains :
          CallToPunycode(domain) /\ UNCHANGED <<genVars, scVars, rvVars, ftVars, dnsVars, snVars, nwVars>>
    \/ DecodeEncoded /\ UNCHANGED <<genVars, scVars, rvVars, ftVars, dnsVars, snVars, nwVars>>
    \/ \E input \in AcePayloads :
          CallFromPunycode(input) /\ UNCHANGED <<genVars, scVars, rvVars, ftVars, dnsVars, snVars, nwVars>>
    \/ AceDone /\ UNCHANGED <<genVars, scVars, rvVars, ftVars, dnsVars, snVars, nwVars>>

SpecCodec == InitCodec /\ [][NextCodec]_vars

(***************************************************************************)
(* findBestFont and scoreVariants                                          *)
(***************************************************************************)
\* FONT_SPECIFIC_WEIGHTS, in the order of Object.entries: per font the danger
\* of a pair <<x, y>>.  The sample has a pair filed under the upper-case
\* letter only, a pair filed letter first, and two fonts that tie.
FONT_SPECIFIC_WEIGHTS ==
    << [name |-> "Arial",
        weights |-> (<<Ch.cyrA, Ch.a>> :> 20) @@ (<<Ch.cyrO, Ch.O>> :> 18)],
       [name |-> "Verdana",
        weights |-> (<<Ch.cyrA, Ch.a>> :> 18) @@ (<<Ch.o, Ch.cyrO>> :> 19)
                       @@ (<<Ch.greekAlpha, Ch.a>> :> 16)],
       [name |-> "Georgia",
        weights |-> (<<Ch.cyrA, Ch.a>> :> 20) @@ (<<Ch.greekAlpha, Ch.a>> :> 19)] >>

FontNames == {FONT_SPECIFIC_WEIGHTS[f].name : f \in DOMAIN FONT_SPECIFIC_WEIGHTS}

\* a font product over the common denominator
FontDen == Pow(ScoreUnit, MaxSubs)

\* the keys tried for a substitution by findBestFont, in order
BestFontKeys(sub) ==
    << <<sub.replacement, sub.original>>, <<sub.original, sub.replacement>>,
       <<sub.replacement, ToUpper(sub.original)>>,
       <<ToUpper(sub.original), sub.replacement>> >>

\* the keys tried for a substitution by scoreVariants with an explicit font
ExplicitFontKeys(sub) ==
    << <<sub.replacement, sub.original>>, <<sub.original, sub.replacement>> >>

\* w = weights[k1] ?? weights[k2] ?? ...: the first key the table has, 0 if none
FirstKey(weights, keys) ==
    LET hits == {n \in DOMAIN keys : keys[n] \in DOMAIN weights}
    IN IF hits = {} THEN 0 ELSE CHOOSE n \in hits : \A m \in hits : n <= m

\* a loop that passes over the substitutions the font has no entry for
RECURSIVE FontProduct_SkipMissing(_, _, _, _)
FontProduct_SkipMissing(weights, subs, n, fallback) ==
    IF n = 0 THEN [allFound |-> TRUE, product |-> 1]
    ELSE LET prev == FontProduct_SkipMissing(weights, subs, n - 1, fallback)
             keys == IF fallback THEN BestFontKeys(subs[n])
                     ELSE ExplicitFontKeys(subs[n])
             k == FirstKey(weights, keys)
         IN IF k = 0 THEN prev
            ELSE [allFound |-> TRUE, product |-> prev.product * weights[keys[k]]]

\* the for loop over the substitutions: product of the font's danger, and
\* allFound
RECURSIVE FontProduct(_, _, _, _)
FontProduct(weights, subs, n, fallback) ==
    IF n = 0 THEN [allFound |-> TRUE, product |-> 1]
    ELSE LET prev == FontProduct(weights, subs, n - 1, fallback)
             keys == IF fallback THEN BestFontKeys(subs[n])
                     ELSE ExplicitFontKeys(subs[n])
             k == FirstKey(weights, keys)
         IN IF ~prev.allFound \/ k = 0 THEN [allFound |-> FALSE, product |-> 0]
            ELSE [allFound |-> TRUE, product |-> prev.product * weights[keys[k]]]

\* a font product as a multiple of 1 / FontDen
OverFontDen(product, n) == product * Pow(ScoreUnit, MaxSubs - n)

NoFont == [found |-> FALSE, font |-> "", ssim |-> 0]

\* the loop over the fonts of findBestFont, up to font f
RECURSIVE BestFontUpTo(_, _)
BestFontUpTo(substitutions, f) ==
    IF f = 0 THEN NoFont
    ELSE LET best == BestFontUpTo(substitutions, f - 1)
             r == FontProduct(FONT_SPECIFIC_WEIGHTS[f].weights, substitutions,
                              Len(substitutions), TRUE)
             fontProduct == OverFontDen(r.product, Len(substitutions))
         IN IF r.allFound /\ fontProduct > best.ssim
            THEN [found |-> TRUE, font |-> FONT_SPECIFIC_WEIGHTS[f].name,
                  ssim |-> fontProduct]
            ELSE best

findBestFont(substitutions) ==
    BestFontUpTo(substitutions, Len(FONT_SPECIFIC_WEIGHTS))

\* the explicit-font branch of scoreVariants
ExplicitFont(substitutions, font) ==
    IF font \notin FontNames THEN NoFont
    ELSE LET f == CHOOSE g \in DOMAIN FONT_SPECIFIC_WEIGHTS :
                     FONT_SPECIFIC_WEIGHTS[g].name = font
             r == FontProduct(FONT_SPECIFIC_WEIGHTS[f].weights, substitutions,
                              Len(substitutions), FALSE)
         IN IF r.allFound
            THEN [found |-> TRUE, font |-> font,
                  ssim |-> OverFontDen(r.product, Len(substitutions))]
            ELSE NoFont

\* one DomainVariant; options.font = "" is no font requested
ScoreOne(rawVariant, tld, options) ==
    LET scored == rawVariant.label \o <<Ch.dot>> \o tld
        best == IF options.font # ""
                THEN ExplicitFont(rawVariant.substitutions, options.font)
                ELSE findBestFont(rawVariant.substitutions)
    IN [domain |-> scored,
        dangerScore |-> computeDangerScore(rawVariant.substitutions,
                                           options.useMaxDanger),
        editCount |-> Len(rawVariant.substitutions),
        substitutions |-> rawVariant.substitutions,
        hasFont |-> best.found,
        bestFont |-> best.font,
        bestFontSsim |-> best.ssim,
        punycode |-> toPunycode(scored)]

scoreVariants(rawVariants, tld, options) ==
    [n \in DOMAIN rawVariants |-> ScoreOne(rawVariants[n], tld, options)]

\* the pairs (original, replacement) of the substitutions handed to the scorer
FontPairs ==
    { <<Ch.a, Ch.cyrA>>, <<Ch.o, Ch.cyrO>>, <<Ch.a, Ch.greekAlpha>>,
      <<Ch.o, Ch.greekOmicron>> }

\* the Substitution list of a list of pairs, positions in order
SubsOf(pairs) ==
    [n \in DOMAIN pairs |->
        LET w == LookupWeight(pairs[n][2], pairs[n][1])
        IN makeSubstitution(n - 1, pairs[n][1],
                            Substitute(pairs[n][2], w.danger, w.stableDanger,
                                       w.idnaPvalid))]

FontSubLists == {SubsOf(pairs) : pairs \in StringsOver(FontPairs, MaxSubs)}

\* the RawVariant carrying a substitution list
RawOf(subs) ==
    [label |-> [n \in DOMAIN subs |-> subs[n].replacement], substitutions |-> subs]

\* RawVariant lists: empty, one variant, two one-edit variants
RawLists ==
    {<<>>} \cup {<<RawOf(s)>> : s \in FontSubLists}
           \cup {<<RawOf(s), RawOf(u)>> :
                    s \in {x \in FontSubLists : Len(x) = 1},
                    u \in {x \in FontSubLists : Len(x) = 1}}

\* ScoreOptions: no font, the fonts of the table, a font it does not have
ScoreOptions ==
    [useMaxDanger : BOOLEAN, font : {""} \cup FontNames \cup {"Comic Sans MS"}]

CallFindBestFont(substitutions) ==
    /\ ftPc = "idle"
    /\ ftSubs' = substitutions
    /\ ftBest' = findBestFont(substitutions)
    /\ ftPc' = "found"
    /\ UNCHANGED <<ftRaw, ftOpts, ftScored>>

CallScoreVariants(rawVariants, tld, options) ==
    /\ ftPc = "idle"
    /\ ftRaw' = rawVariants
    /\ ftOpts' = options
    /\ ftScored' = scoreVariants(rawVariants, tld, options)
    /\ ftPc' = "scored"
    /\ UNCHANGED <<ftSubs, ftBest>>

FontDone ==
    /\ ftPc \in {"found", "scored"}
    /\ ftPc' = "idle"
    /\ ftSubs' = <<>>
    /\ ftBest' = NoFont
    /\ ftRaw' = <<>>
    /\ ftOpts' = [useMaxDanger |-> FALSE, font |-> ""]
    /\ ftScored' = <<>>

InitFonts == GenIdle /\ InitScore /\ InitReverse /\ InitRest

NextFonts ==
    \/ \E substitutions \in FontSubLists :
          CallFindBestFont(substitutions)
             /\ UNCHANGED <<genVars, scVars, rvVars, aceVars, dnsVars, snVars, nwVars>>
    \/ \E rawVariants \in RawLists, options \in ScoreOptions :
          CallScoreVariants(rawVariants, DefaultTld, options)
             /\ UNCHANGED <<genVars, scVars, rvVars, aceVars, dnsVars, snVars, nwVars>>
    \/ FontDone /\ UNCHANGED <<genVars, scVars, rvVars, aceVars, dnsVars, snVars, nwVars>>

SpecFonts == InitFonts /\ [][NextFonts]_vars

(***************************************************************************)
(* DNS resolvers: the Node resolver behind its Semaphore, and the          *)
(* DNS-over-HTTPS resolver.                                                *)
(***************************************************************************)
\* record type numbers
RR_A == 1
RR_AAAA == 28
RR_MX == 15
RR_NS == 2
RR_CNAME == 5

\* an acquire that never waits
acquire_NoLimit(running, queue, max, call) ==
    [running |-> running + 1, queue |-> queue, granted |-> TRUE]

\* Semaphore.acquire: take a slot, or join the queue
acquire(running, queue, max, call) ==
    IF running < max
    THEN [running |-> running + 1, queue |-> queue, granted |-> TRUE]
    ELSE [running |-> running, queue |-> Append(queue, call), granted |-> FALSE]

\* a release that drops the first waiter instead of admitting it
release_DropsWaiter(running, queue) ==
    IF queue # <<>>
    THEN [running |-> running - 1, queue |-> Tail(queue), next |-> 0]
    ELSE [running |-> running - 1, queue |-> queue, next |-> 0]

\* Semaphore.release: give the slot back, hand it to the first waiter
release(running, queue) ==
    IF queue # <<>>
    THEN [running |-> (running - 1) + 1, queue |-> Tail(queue), next |-> Head(queue)]
    ELSE [running |-> running - 1, queue |-> queue, next |-> 0]

\* safeResolve: the records of a lookup that answered in time, [] otherwise
safeResolve(outcome) ==
    IF outcome.kind = "ok" THEN outcome.records ELSE <<>>

\* what one record lookup can do: answer, reject, or outlast the timeout
LookupOutcomes(type) ==
    { [kind |-> "ok", records |-> <<type>>],
      [kind |-> "error", records |-> <<>>],
      [kind |-> "timeout", records |-> <<type>>] }

\* resolve(): await semaphore.acquire()
ResolveAcquire(call) ==
    /\ resolver = "node"
    /\ callPc[call] = "idle"
    /\ LET s == acquire(semRunning, semQueue, semMax, call)
       IN /\ semRunning' = s.running
          /\ semQueue' = s.queue
          /\ callPc' = [callPc EXCEPT ![call] =
                           IF s.granted THEN "admitted" ELSE "waiting"]
    /\ UNCHANGED <<semMax, resolver, dnsResult>>

\* the await returns: the four lookups start
ResolveStart(call) ==
    /\ callPc[call] = "admitted"
    /\ callPc' = [callPc EXCEPT ![call] = "lookup"]
    /\ UNCHANGED <<semMax, semRunning, semQueue, resolver, dnsResult>>

\* Promise.all settles: the result is built, and finally releases the slot
ResolveReturn(call, oa, oaaaa, omx, ons) ==
    /\ callPc[call] = "lookup"
    /\ dnsResult' = DnsResultOf(safeResolve(oa), safeResolve(oaaaa),
                                safeResolve(omx), safeResolve(ons))
    /\ LET s == release(semRunning, semQueue)
       IN /\ semRunning' = s.running
          /\ semQueue' = s.queue
          /\ callPc' = [c \in Calls |->
                           IF c = call THEN "returned"
                           ELSE IF c = s.next THEN "admitted" ELSE callPc[c]]
    /\ UNCHANGED <<semMax, resolver>>

\* the caller takes the result; the call slot can be used again
ResolveTaken(call) ==
    /\ callPc[call] = "returned"
    /\ callPc' = [callPc EXCEPT ![call] = "idle"]
    /\ UNCHANGED <<semMax, semRunning, semQueue, resolver, dnsResult>>

\* the Answer list of a DNS-over-HTTPS response: records of the queried type
\* and CNAME records, [] when the request failed
DohAnswers(type) == StringsOver({type, RR_CNAME}, MaxAnswers)

\* .filter((r) => r.type === type)
FilterType(answers, type) == SelectSeq(answers, LAMBDA r : r = type)

\* createDohResolver().resolve
DohResolve(aAnswers, aaaaAnswers, mxAnswers, nsAnswers) ==
    /\ resolver = "doh"
    /\ dnsResult' = DnsResultOf(FilterType(aAnswers, RR_A),
                                FilterType(aaaaAnswers, RR_AAAA),
                                FilterType(mxAnswers, RR_MX),
                                FilterType(nsAnswers, RR_NS))
    /\ UNCHANGED <<semMax, semRunning, semQueue, callPc, resolver>>

InitResolver ==
    /\ GenIdle /\ InitScore /\ InitReverse /\ InitAce /\ InitFont /\ InitScan /\ InitNew
    /\ \/ \E concurrency \in 1..MaxConcurrency : createNodeResolver(concurrency)
       \/ createDohResolver

NextResolver ==
    \/ \E call \in Calls :
          ResolveAcquire(call) /\ UNCHANGED <<genVars, scVars, rvVars, aceVars, ftVars, snVars, nwVars>>
    \/ \E call \in Calls :
          ResolveStart(call) /\ UNCHANGED <<genVars, scVars, rvVars, aceVars, ftVars, snVars, nwVars>>
    \/ \E call \in Calls, oa \in LookupOutcomes(RR_A), oaaaa \in LookupOutcomes(RR_AAAA),
          omx \in LookupOutcomes(RR_MX), ons \in LookupOutcomes(RR_NS) :
          ResolveReturn(call, oa, oaaaa, omx, ons)
             /\ UNCHANGED <<genVars, scVars, rvVars, aceVars, ftVars, snVars, nwVars>>
    \/ \E call \in Calls :
          ResolveTaken(call) /\ UNCHANGED <<genVars, scVars, rvVars, aceVars, ftVars, snVars, nwVars>>
    \/ \E aAnswers \in DohAnswers(RR_A), aaaaAnswers \in DohAnswers(RR_AAAA),
          mxAnswers \in DohAnswers(RR_MX), nsAnswers \in DohAnswers(RR_NS) :
          DohResolve(aAnswers, aaaaAnswers, mxAnswers, nsAnswers)
             /\ UNCHANGED <<genVars, scVars, rvVars, aceVars, ftVars, snVars, nwVars>>

SpecResolver == InitResolver /\ [][NextResolver]_vars

(***************************************************************************)
(* scan without DNS resolution, with getTargetTlds and generateTldVariants *)
(***************************************************************************)
\* Object.entries of the two tables, in the order the tables list them
MapOrder == <<Ch.cyrA, Ch.greekAlpha, Ch.latinAlpha, Ch.cyrO, Ch.cyrCapA>>

WeightOrder ==
    << <<Ch.cyrA, Ch.a>>, <<Ch.cyrA, Ch.A>>, <<Ch.greekAlpha, Ch.a>>,
       <<Ch.greekAlpha, Ch.cyrA>>, <<Ch.cyrO, Ch.o>>, <<Ch.greekOmicron, Ch.o>>,
       <<Ch.greekOmicron, Ch.O>> >>

\* loop 1 of buildPrototypeBuckets, over the first n entries; iteration n
\* works on the table that iteration n - 1 left
RECURSIVE MapLoop(_, _)
MapLoop(includeNonPvalid, n) ==
    IF n = 0 THEN EmptyMap
    ELSE CHOOSE after \in {MapEntryEdges(before, includeNonPvalid, MapOrder[n]) :
                              before \in {MapLoop(includeNonPvalid, n - 1)}} : TRUE

\* loop 2 of buildPrototypeBuckets, over the first n entries
RECURSIVE WeightLoop(_, _)
WeightLoop(includeNonPvalid, n) ==
    IF n = 0 THEN MapLoop(includeNonPvalid, Len(MapOrder))
    ELSE CHOOSE after \in {WeightEntryEdges(before, includeNonPvalid,
                                            WeightOrder[n][1], WeightOrder[n][2]) :
                              before \in {WeightLoop(includeNonPvalid, n - 1)}} : TRUE

\* buildPrototypeBuckets(options) as one call
buildPrototypeBuckets(options) ==
    SortAndCap(WeightLoop(options.includeNonPvalid, Len(WeightOrder)), options)

\* the concatenation of the first n arrays of ss
RECURSIVE ConcatFirst(_, _)
ConcatFirst(ss, n) == IF n = 0 THEN <<>> ELSE ConcatFirst(ss, n - 1) \o ss[n]

Concat(ss) == ConcatFirst(ss, Len(ss))

\* Set.prototype.add on a set kept in insertion order
AddToSet(seq, x) == IF x \in Range(seq) THEN seq ELSE Append(seq, x)

RECURSIVE AddAllToSet(_, _)
AddAllToSet(seq, xs) ==
    IF xs = <<>> THEN seq ELSE AddAllToSet(AddToSet(seq, Head(xs)), Tail(xs))

\* "com", "net", "org", "io"
DEFAULT_TLDS == << <<99, 111, 109>>, <<110, 101, 116>>, <<111, 114, 103>>, <<105, 111>> >>

\* IDN_TLDS: Cyrillic -> xn--p1ai; Arabic -> xn--mgbaam7a8h; Han ->
\* xn--fiqs8s, xn--fiqz9s; Korean -> xn--3e0b707e; Thai -> xn--o3cw4h;
\* Devanagari -> xn--h2brj9c
IDN_TLDS ==
    ("Cyrillic" :> << AcePrefix \o <<112, 49, 97, 105>> >>)
        @@ ("Arabic" :> << AcePrefix \o <<109, 103, 98, 97, 97, 109, 55, 97, 56, 104>> >>)
        @@ ("Han" :> << AcePrefix \o <<102, 105, 113, 115, 56, 115>>,
                        AcePrefix \o <<102, 105, 113, 122, 57, 115>> >>)
        @@ ("Korean" :> << AcePrefix \o <<51, 101, 48, 98, 55, 48, 55, 101>> >>)
        @@ ("Thai" :> << AcePrefix \o <<111, 51, 99, 119, 52, 104>> >>)
        @@ ("Devanagari" :> << AcePrefix \o <<104, 50, 98, 114, 106, 57, 99>> >>)

\* generateTldVariants(tld) without a table: one edit per position, the first
\* five substitutes of a table built with maxPerChar 5
generateTldVariants(tld) ==
    LET protoBuckets == buildPrototypeBuckets([includeNonPvalid |-> FALSE,
                                               maxPerChar |-> 5,
                                               useMaxDanger |-> FALSE])
        chars == LowerStr(tld)
        at(pos) == IF chars[pos] \notin DOMAIN protoBuckets THEN <<>>
                   ELSE LET subs == SliceTo(protoBuckets[chars[pos]], 5)
                        IN [k \in DOMAIN subs |-> [chars EXCEPT ![pos] = subs[k].char]]
    IN AddAllToSet(<<>>, Concat([i \in DOMAIN chars |-> at(i)]))

\* the IDN TLDs of the scripts, in the order of the scripts
RECURSIVE IdnTldsOf(_)
IdnTldsOf(scripts) ==
    IF scripts = <<>> THEN <<>>
    ELSE (IF Head(scripts) \in DOMAIN IDN_TLDS THEN IDN_TLDS[Head(scripts)] ELSE <<>>)
            \o IdnTldsOf(Tail(scripts))

\* getTargetTlds({baseTlds, tldVariants, scripts}); baseTlds = <<>> stands for
\* an absent list
getTargetTlds(baseTlds, tldVariants, scripts) ==
    LET base == AddAllToSet(<<>>, IF baseTlds = <<>> THEN DEFAULT_TLDS ELSE baseTlds)
        tlds == AddAllToSet(base, IdnTldsOf(scripts))
    IN IF tldVariants
       THEN AddAllToSet(tlds, Concat([n \in DOMAIN tlds |-> generateTldVariants(tlds[n])]))
       ELSE tlds

\* the scripts of the substitutions of the raw variants, in first-seen order
ScriptsSeen(rawVariants) ==
    AddAllToSet(<<>>,
        Concat([n \in DOMAIN rawVariants |->
                    [k \in DOMAIN rawVariants[n].substitutions |->
                        rawVariants[n].substitutions[k].script]]))

\* the loop over the target TLDs: scoreVariants for each, results appended
ScoreForTlds(rawVariants, tlds, options) ==
    Concat([n \in DOMAIN tlds |->
               scoreVariants(rawVariants, tlds[n],
                             [useMaxDanger |-> options.useMaxDanger,
                              font |-> options.font])])

\* a cap applied before the sort
FilterSortCap_CapFirst(allVariants, threshold, top) ==
    LET kept == SliceTo(SelectSeq(allVariants, LAMBDA v : v.dangerScore >= threshold), top)
    IN SortDesc(kept, [i \in DOMAIN kept |-> kept[i].dangerScore])

\* filter by threshold, sort by dangerScore descending, cap at top
FilterSortCap(allVariants, threshold, top) ==
    LET kept == SelectSeq(allVariants, LAMBDA v : v.dangerScore >= threshold)
    IN SliceTo(SortDesc(kept, [i \in DOMAIN kept |-> kept[i].dangerScore]), top)

\* the second half of scan: target TLDs, scores, filter, sort and cap
ScanGenerated(domain, options, split, generated) ==
    [original |-> domain, label |-> split.label, tld |-> split.tld,
     totalGenerated |-> Len(generated),
     variants |->
        FilterSortCap(
            ScoreForTlds(generated,
                         getTargetTlds(IF options.tlds = <<>> THEN <<split.tld>>
                                       ELSE options.tlds,
                                       options.tldVariants, ScriptsSeen(generated)),
                         options),
            options.threshold, options.top)]

\* scan(domain, options) with options.resolve absent or false; options.tlds
\* = <<>> stands for an absent list
scan(domain, options) ==
    ScanGenerated(domain, options, splitDomain(domain),
        generateVariants(
            splitDomain(domain).label,
            [maxEdits |-> options.maxEdits, maxPerChar |-> options.maxPerChar,
             maxVariants |-> options.maxVariants,
             useMaxDanger |-> options.useMaxDanger],
            buildPrototypeBuckets(
                [includeNonPvalid |-> options.includeNonPvalid,
                 maxPerChar |-> options.maxPerChar,
                 useMaxDanger |-> options.useMaxDanger])))

\* thresholds 0 and 0.85 on the scale of the scores
Thresholds == {0, 17 * (ScoreDen \div ScoreUnit)}

ScanOptions ==
    [includeNonPvalid : BOOLEAN, maxPerChar : {MaxPerCharBound},
     useMaxDanger : BOOLEAN, maxEdits : {2}, maxVariants : {MaxVariantsBound},
     top : 0..MaxTop, threshold : Thresholds,
     tlds : {<<>>, << <<99, 111, 109>>, <<110, 101, 116>> >>},
     tldVariants : BOOLEAN, font : {"", "Arial"}]

\* the domains scanned: a label and ".com"
ScanInputs ==
    {l \o <<46, 99, 111, 109>> : l \in StringsOver(LabelChars, MaxScanLabelLen) \ {<<>>}}

CallScan(domain, options) ==
    /\ snPc = "idle"
    /\ snDomain' = domain
    /\ snOpts' = options
    /\ snResult' = scan(domain, options)
    /\ snPc' = "returned"

ScanDone ==
    /\ snPc = "returned"
    /\ snPc' = "idle"
    /\ snDomain' = <<>>
    /\ snOpts' = NoScanOptions
    /\ snResult' = NoScanResult

InitScanner == GenIdle /\ InitScore /\ InitReverse /\ InitRest

NextScanner ==
    \/ \E domain \in ScanInputs, options \in ScanOptions :
          CallScan(domain, options)
             /\ UNCHANGED <<genVars, scVars, rvVars, aceVars, ftVars, dnsVars, nwVars>>
    \/ ScanDone /\ UNCHANGED <<genVars, scVars, rvVars, aceVars, ftVars, dnsVars, nwVars>>

SpecScanner == InitScanner /\ [][NextScanner]_vars

(***************************************************************************)
(* The forward generator followed by the reverse resolver.                 *)
(***************************************************************************)
\* generate.ts: maxEdits ?? 2, maxPerChar ?? 10, maxVariants ?? 5000
DefaultMaxEdits == 2
DefaultMaxPerChar == 10
DefaultMaxVariants == 5000

\* generateVariants(label) with neither options nor buckets: the defaults,
\* and a table built from them
generateVariantsDefault(label) ==
    generateVariants(label,
                     [maxEdits |-> DefaultMaxEdits, maxPerChar |-> DefaultMaxPerChar,
                      maxVariants |-> DefaultMaxVariants, useMaxDanger |-> FALSE],
                     buildPrototypeBuckets([includeNonPvalid |-> FALSE,
                                            maxPerChar |-> DefaultMaxPerChar,
                                            useMaxDanger |-> FALSE]))

\* labels over [a-z0-9]
AsciiLabels == StringsOver({Ch.a, Ch.o}, MaxLabelLen) \ {<<>>}

\* const variants = generateVariants(label)
GenerateDefault(label) ==
    /\ pc = "idle"
    /\ rvPc = "idle"
    /\ genLabel' = label
    /\ genOpts' = [maxEdits |-> DefaultMaxEdits, maxPerChar |-> DefaultMaxPerChar,
                   maxVariants |-> DefaultMaxVariants, useMaxDanger |-> FALSE]
    /\ buildOpts' = [includeNonPvalid |-> FALSE, maxPerChar |-> DefaultMaxPerChar,
                     useMaxDanger |-> FALSE]
    /\ buckets' = buildPrototypeBuckets(buildOpts')
    /\ built' = TRUE
    /\ variants' = generateVariantsDefault(label)
    /\ pc' = "generated"
    /\ UNCHANGED <<pendingMap, pendingW, raw, rvVars>>

\* reverseScan(variants[n].label + ".com")
ReverseVariant(n) ==
    /\ pc = "generated"
    /\ rvPc = "idle"
    /\ n \in DOMAIN variants
    /\ CallReverseScan(variants[n].label \o <<Ch.dot>> \o DefaultTld)
    /\ UNCHANGED genVars

\* the next variant, or the next label
InverseDone ==
    /\ pc = "generated"
    /\ \/ /\ rvPc \in {"returned", "threw"}
          /\ ReverseScanDone
          /\ UNCHANGED genVars
       \/ /\ rvPc = "idle"
          /\ pc' = "idle"
          /\ buildOpts' = NoOpts
          /\ buckets' = EmptyMap
          /\ built' = FALSE
          /\ genLabel' = <<>>
          /\ genOpts' = [maxEdits |-> 0, maxPerChar |-> 0, maxVariants |-> 0,
                         useMaxDanger |-> FALSE]
          /\ variants' = <<>>
          /\ UNCHANGED <<pendingMap, pendingW, raw, rvVars>>

InitInverse == GenIdle /\ InitScore /\ InitReverse /\ InitRest

NextInverse ==
    \/ \E label \in AsciiLabels : GenerateDefault(label) /\ UNCHANGED <<scVars, xtVars>>
    \/ \E n \in 1..(MaxLabelLen * MaxLabelLen * 4) :
          ReverseVariant(n) /\ UNCHANGED <<scVars, xtVars>>
    \/ InverseDone /\ UNCHANGED <<scVars, xtVars>>

SpecInverse == InitInverse /\ [][NextInverse]_vars

Next ==
    \/ \E char \in DOMAIN CONFUSABLE_MAP_FULL :
          InsertMapEntry(char) /\ UNCHANGED <<scVars, rvVars, xtVars>>
    \/ \E key \in DOMAIN CONFUSABLE_WEIGHTS :
          InsertWeightEntry(key) /\ UNCHANGED <<scVars, rvVars, xtVars>>
    \/ FinishBuild /\ UNCHANGED <<scVars, rvVars, xtVars>>
    \/ \E label \in Labels, opts \in GenerateOptions :
          Generate(label, opts) /\ UNCHANGED <<scVars, rvVars, xtVars>>

Spec == Init /\ [][Next]_vars

(***************************************************************************)
(* Properties of the forward pipeline.                                     *)
(***************************************************************************)
Generated == pc = "generated"

DiffPositions(x, y) == {i \in DOMAIN x : x[i] # y[i]}

\* no bucket lists its own prototype as a substitute; addEdge skips such edges
NoSelfEntries(bk) ==
    \A proto \in DOMAIN bk : \A k \in DOMAIN bk[proto] : bk[proto][k].char # proto

\* the variant's label differs from base exactly at the positions of its
\* substitutions, each holding the replacement, which is not the original
EditsAgainst(v, base) ==
    /\ Len(v.label) = Len(base)
    /\ DiffPositions(v.label, base)
          = {v.substitutions[k].position + 1 : k \in DOMAIN v.substitutions}
    /\ \A k \in DOMAIN v.substitutions :
          LET s == v.substitutions[k]
          IN /\ v.label[s.position + 1] = s.replacement
             /\ s.replacement # s.original

\* C1 as stated: with maxEdits = 1 every returned variant carries exactly one
\* substitution and differs from the input label at exactly that position,
\* for every label and every bucket table.
C1_AsStated ==
    (Generated /\ genOpts.maxEdits = 1) =>
        \A v \in Range(variants) :
            /\ Len(v.substitutions) = 1
            /\ EditsAgainst(v, genLabel)

\* C1 amended: with maxEdits = 1 and a bucket table that lists no character as
\* its own substitute, every returned variant carries exactly one substitution
\* and differs from the lower-cased input label at exactly one position, the
\* substitution's, where it holds the replacement, which is not the original.
C1_OneEditDiffersAtOnePosition ==
    (Generated /\ genOpts.maxEdits = 1 /\ NoSelfEntries(buckets)) =>
        \A v \in Range(variants) :
            /\ Len(v.substitutions) = 1
            /\ EditsAgainst(v, LowerStr(genLabel))
            /\ Cardinality(DiffPositions(v.label, LowerStr(genLabel))) = 1

C1_Witness ==
    /\ Generated
    /\ genOpts.maxEdits = 1
    /\ built
    /\ genLabel # LowerStr(genLabel)
    /\ Len(variants) >= 2

\* C2 as stated: with maxEdits = 2 every returned variant with two
\* substitutions differs from the input label at exactly two positions, listed
\* in strictly increasing order.
C2_AsStated ==
    (Generated /\ genOpts.maxEdits = 2) =>
        \A v \in Range(variants) :
            Len(v.substitutions) = 2 =>
                /\ Cardinality(DiffPositions(v.label, genLabel)) = 2
                /\ v.substitutions[1].position < v.substitutions[2].position

\* C2 amended: with maxEdits = 2 every returned variant with two substitutions
\* differs from the lower-cased input label at exactly two positions, those of
\* its substitutions, and the substitution list has strictly increasing
\* positions.
C2_TwoEditDiffersAtTwoPositions ==
    (Generated /\ genOpts.maxEdits = 2) =>
        \A v \in Range(variants) :
            Len(v.substitutions) = 2 =>
                /\ EditsAgainst(v, LowerStr(genLabel))
                /\ Cardinality(DiffPositions(v.label, LowerStr(genLabel))) = 2
                /\ v.substitutions[1].position < v.substitutions[2].position

C2_Witness ==
    /\ Generated
    /\ genOpts.maxEdits = 2
    /\ ~NoSelfEntries(buckets)
    /\ genLabel # LowerStr(genLabel)
    /\ \E v \in Range(variants) : Len(v.substitutions) = 2

\* every candidate the two passes would try when no cap stops them, in order
Enumerated(label, opts, bk) ==
    OneEditCandidates(LowerStr(label), bk, opts.maxPerChar)
        \o (IF opts.maxEdits >= 2
            THEN TwoEditCandidates(LowerStr(label), bk, opts.maxPerChar)
            ELSE <<>>)

\* C3: no two variants returned by generateVariants have the same label.
C3_NoDuplicateLabels ==
    Generated =>
        \A i, j \in DOMAIN variants : i # j => variants[i].label # variants[j].label

\* a second path to a string already accepted was tried and skipped
C3_Witness ==
    /\ Generated
    /\ Len(variants) < genOpts.maxVariants
    /\ LET cands == Enumerated(genLabel, genOpts, buckets)
       IN \E k, l \in DOMAIN cands :
             /\ k < l
             /\ cands[k].mutated = cands[l].mutated
             /\ Len(cands[k].subs) # Len(cands[l].subs)

\* the distinct mutated strings of the 1-edit pass and, when maxEdits >= 2, of
\* the 2-edit pass, as a set
OneEditStrings(chars, bk, n) ==
    UNION {{[chars EXCEPT ![i] = bk[chars[i]][k].char] :
                k \in 1..Min(n, Len(bk[chars[i]]))} :
           i \in {p \in DOMAIN chars : chars[p] \in DOMAIN bk}}

TwoEditStrings(chars, bk, n) ==
    UNION {{[chars EXCEPT ![ij[1]] = bk[chars[ij[1]]][a].char,
                          ![ij[2]] = bk[chars[ij[2]]][b].char] :
                a \in 1..Min(Min(n, TwoEditTop), Len(bk[chars[ij[1]]])),
                b \in 1..Min(Min(n, TwoEditTop), Len(bk[chars[ij[2]]]))} :
           ij \in {pq \in (DOMAIN chars) \X (DOMAIN chars) :
                      /\ pq[1] < pq[2]
                      /\ chars[pq[1]] \in DOMAIN bk
                      /\ chars[pq[2]] \in DOMAIN bk}}

DistinctStrings(label, opts, bk) ==
    OneEditStrings(LowerStr(label), bk, opts.maxPerChar)
        \cup (IF opts.maxEdits >= 2
              THEN TwoEditStrings(LowerStr(label), bk, opts.maxPerChar)
              ELSE {})

\* C4: the number of variants returned is min(maxVariants, D), D the number of
\* distinct mutated strings the passes enumerate; never more than maxVariants.
C4_CountIsMinOfCapAndDistinct ==
    Generated =>
        /\ Len(variants) <= genOpts.maxVariants
        /\ Len(variants)
              = Min(genOpts.maxVariants,
                    Cardinality(DistinctStrings(genLabel, genOpts, buckets)))

\* duplicates were tried, and the cap was still filled with distinct strings
C4_Witness ==
    /\ Generated
    /\ Len(variants) = genOpts.maxVariants
    /\ Len(variants) = Cardinality(DistinctStrings(genLabel, genOpts, buckets))
    /\ Len(variants) >= 2
    /\ Len(Enumerated(genLabel, genOpts, buckets)) > Len(variants)

\* the aggregate score of the claim, over ScoreDen: the product of the score
\* key over the substitutions, times (1 - 0.1 * (editCount - 1))
ClaimedAggregate(v, useMaxDanger) ==
    LET s == v.substitutions
        Key(x) == IF useMaxDanger THEN x.danger ELSE x.stableDanger
    IN CASE Len(s) = 1 -> Key(s[1]) * Pow(ScoreUnit, MaxSubs - 1) * 100
         [] Len(s) = 2 -> Key(s[1]) * Key(s[2]) * Pow(ScoreUnit, MaxSubs - 2) * 90
         [] OTHER -> 0

\* C5: the returned list is sorted non-increasing by aggregate score, on every
\* return path.
C5_SortedByAggregateScore ==
    Generated =>
        \A i \in 1..(Len(variants) - 1) :
            ClaimedAggregate(variants[i], genOpts.useMaxDanger)
                >= ClaimedAggregate(variants[i + 1], genOpts.useMaxDanger)

\* an early return (the cap stopped the passes) whose accepted list was not in
\* score order
C5_Witness ==
    /\ Generated
    /\ Len(variants) = genOpts.maxVariants
    /\ Cardinality(DistinctStrings(genLabel, genOpts, buckets)) > Len(variants)
    /\ ~Passes(genLabel, genOpts, buckets).ok
    /\ variants # Passes(genLabel, genOpts, buckets).variants
    /\ \E v \in Range(variants) : Len(v.substitutions) = 2

Built == pc \in {"built", "generated"} /\ built

\* C6: every built bucket is ordered descending by the configured score key.
C6_BucketsSortedByScoreKey ==
    Built =>
        \A proto \in DOMAIN buckets :
            \A i \in 1..(Len(buckets[proto]) - 1) :
                IF buildOpts.useMaxDanger
                THEN buckets[proto][i].danger >= buckets[proto][i + 1].danger
                ELSE buckets[proto][i].stableDanger
                        >= buckets[proto][i + 1].stableDanger

\* a bucket ordered by danger that is not ordered by stableDanger
C6_Witness ==
    /\ pc = "built"
    /\ built
    /\ buildOpts.useMaxDanger
    /\ \E proto \in DOMAIN buckets :
          \E i \in 1..(Len(buckets[proto]) - 1) :
              buckets[proto][i].stableDanger < buckets[proto][i + 1].stableDanger

\* the 1-edit variants of the result that edit position i (0-based)
OneEditVariantsAt(i) ==
    {v \in Range(variants) :
        Len(v.substitutions) = 1 /\ v.substitutions[1].position = i}

\* C7: a table built with maxPerChar = k has at most k entries per bucket, and
\* generateVariants with maxPerChar = k returns at most k 1-edit variants per
\* position, whatever cap its table was built with.
C7_MaxPerCharBounds ==
    /\ Built => \A proto \in DOMAIN buckets :
                   Len(buckets[proto]) <= buildOpts.maxPerChar
    /\ Generated => \A i \in 0..(Len(genLabel) - 1) :
                       Cardinality(OneEditVariantsAt(i)) <= genOpts.maxPerChar

\* a table built with a larger cap, a position that used all k of its substitutes
C7_Witness ==
    /\ Generated
    /\ built
    /\ genOpts.maxPerChar >= 1
    /\ buildOpts.maxPerChar > genOpts.maxPerChar
    /\ \E i \in 0..(Len(genLabel) - 1) :
          /\ Cardinality(OneEditVariantsAt(i)) = genOpts.maxPerChar
          /\ Len(buckets[LowerStr(genLabel)[i + 1]]) > genOpts.maxPerChar

\* C8: built without includeNonPvalid, every substitute of every bucket is
\* PVALID, and so is every substitution of every variant generated from it.
C8_OnlyPvalidByDefault ==
    (Built /\ ~buildOpts.includeNonPvalid) =>
        /\ \A proto \in DOMAIN buckets :
              \A k \in DOMAIN buckets[proto] : buckets[proto][k].idnaPvalid
        /\ \A v \in Range(variants) :
              \A k \in DOMAIN v.substitutions : v.substitutions[k].idnaPvalid

\* the sample holds non-PVALID edges; a default build dropped them and variants
\* were generated from what is left
C8_Witness ==
    /\ Generated
    /\ built
    /\ ~buildOpts.includeNonPvalid
    /\ variants # <<>>
    /\ \E key \in DOMAIN CONFUSABLE_WEIGHTS : ~CONFUSABLE_WEIGHTS[key].idnaPvalid

\* the candidates under the enumeration key of the claim: a 1-edit candidate
\* at position p with the substitute of rank a carries <<1, p, 0, a, 0>>, a
\* 2-edit candidate at p < q with ranks a and b carries <<2, p, q, a, b>>
OneEditKeyed(chars, bk, n) ==
    UNION {{[key |-> <<1, p, 0, a, 0>>,
             mutated |-> [chars EXCEPT ![p] = bk[chars[p]][a].char],
             subs |-> <<makeSubstitution(p - 1, chars[p], bk[chars[p]][a])>>] :
                a \in 1..Min(n, Len(bk[chars[p]]))} :
           p \in {x \in DOMAIN chars : chars[x] \in DOMAIN bk}}

TwoEditKeyed(chars, bk, n) ==
    UNION {{[key |-> <<2, pq[1], pq[2], a, b>>,
             mutated |-> [chars EXCEPT ![pq[1]] = bk[chars[pq[1]]][a].char,
                                       ![pq[2]] = bk[chars[pq[2]]][b].char],
             subs |-> <<makeSubstitution(pq[1] - 1, chars[pq[1]], bk[chars[pq[1]]][a]),
                        makeSubstitution(pq[2] - 1, chars[pq[2]], bk[chars[pq[2]]][b])>>] :
                a \in 1..Min(Min(n, TwoEditTop), Len(bk[chars[pq[1]]])),
                b \in 1..Min(Min(n, TwoEditTop), Len(bk[chars[pq[2]]]))} :
           pq \in {xy \in (DOMAIN chars) \X (DOMAIN chars) :
                      /\ xy[1] < xy[2]
                      /\ chars[xy[1]] \in DOMAIN bk
                      /\ chars[xy[2]] \in DOMAIN bk}}

KeyedCandidates(label, opts, bk) ==
    OneEditKeyed(LowerStr(label), bk, opts.maxPerChar)
        \cup (IF opts.maxEdits >= 2
              THEN TwoEditKeyed(LowerStr(label), bk, opts.maxPerChar)
              ELSE {})

\* the order of the keys: by edit count, then positions, then ranks
KeyBefore(x, y) ==
    \E n \in 1..5 : x[n] < y[n] /\ \A m \in 1..(n - 1) : x[m] = y[m]

\* the candidates that are the first to produce their string
FirstOfString(cs) ==
    {c \in cs : \A d \in cs : d.mutated = c.mutated => ~KeyBefore(d.key, c.key)}

\* the first n distinct candidates in enumeration order
CapPrefix(cs, n) ==
    LET first == FirstOfString(cs)
    IN {c \in first : Cardinality({d \in first : KeyBefore(d.key, c.key)}) < n}

CapBinds ==
    /\ Generated
    /\ Cardinality(DistinctStrings(genLabel, genOpts, buckets)) > genOpts.maxVariants

\* C25: when the cap binds, the variants returned are exactly the first
\* maxVariants distinct candidates in enumeration order (1-edit candidates by
\* position then bucket rank, then 2-edit candidates by (i, j), rank at i,
\* rank at j), each with the substitutions of its first candidate; a 2-edit
\* variant is returned only if every distinct 1-edit string is; and the list
\* is that prefix sorted non-increasing by aggregate score.
C25_CapKeepsEnumerationPrefix ==
    CapBinds =>
        LET kept == CapPrefix(KeyedCandidates(genLabel, genOpts, buckets),
                              genOpts.maxVariants)
        IN /\ Len(variants) = genOpts.maxVariants
           /\ Range(variants)
                 = {[label |-> c.mutated, substitutions |-> c.subs] : c \in kept}
           /\ (\E v \in Range(variants) : Len(v.substitutions) = 2)
                 => OneEditStrings(LowerStr(genLabel), buckets, genOpts.maxPerChar)
                       \subseteq {v.label : v \in Range(variants)}
           /\ \A i \in 1..(Len(variants) - 1) :
                 ClaimedAggregate(variants[i], genOpts.useMaxDanger)
                     >= ClaimedAggregate(variants[i + 1], genOpts.useMaxDanger)

\* the cap cut the enumeration inside the 2-edit pass, and a candidate left
\* out scores above one that was kept
C25_Witness ==
    /\ CapBinds
    /\ genOpts.maxVariants >= 2
    /\ \E v \in Range(variants) : Len(v.substitutions) = 2
    /\ LET cs == KeyedCandidates(genLabel, genOpts, buckets)
           kept == CapPrefix(cs, genOpts.maxVariants)
       IN \E c \in FirstOfString(cs) \ kept : \E d \in kept :
             aggregateScore(c.subs, genOpts.useMaxDanger)
                 > aggregateScore(d.subs, genOpts.useMaxDanger)

(***************************************************************************)
(* Properties of the scorer.                                               *)
(***************************************************************************)
Scored == scPc = "scored"

\* the claimed composite score over ScoreDen, before the clamp: the product of
\* the score key, the edit penalty 1 - 0.1 (n - 1), and 0.9 for mixed scripts
RECURSIVE KeyProduct(_, _, _)
KeyProduct(subs, useMax, n) ==
    IF n = 0 THEN 1
    ELSE (IF useMax THEN subs[n].danger ELSE subs[n].stableDanger)
            * KeyProduct(subs, useMax, n - 1)

ClaimedDanger(subs, useMax) ==
    LET n == Len(subs)
        mixed == \E i, j \in DOMAIN subs : subs[i].script # subs[j].script
    IN KeyProduct(subs, useMax, n) * Pow(ScoreUnit, MaxSubs - n)
          * (10 - (n - 1)) * (IF mixed THEN 9 ELSE 10)

\* C9: computeDangerScore is 0 for the empty list and otherwise the product of
\* the score keys times the edit penalty times the mixed-script factor, clamped
\* to [0, 1]; a single substitution scores its score key.
C9_DangerScoreFormula ==
    Scored =>
        /\ scSubs = <<>> => scResult = 0
        /\ scSubs # <<>> =>
              scResult = Max(0, Min(ScoreDen, ClaimedDanger(scSubs, scUseMax)))
        /\ Len(scSubs) = 1 =>
              scResult = OverScoreDen(IF scUseMax THEN scSubs[1].danger
                                      ELSE scSubs[1].stableDanger)
        /\ scResult >= 0
        /\ scResult <= ScoreDen

\* the documented example: 0.9 and 0.85 in two scripts score 0.61965
C9_Witness ==
    /\ Scored
    /\ ~scUseMax
    /\ Len(scSubs) = 2
    /\ scSubs[1].stableDanger * 20 = 18 * ScoreUnit
    /\ scSubs[2].stableDanger * 20 = 17 * ScoreUnit
    /\ scSubs[1].script # scSubs[2].script
    /\ scResult = 61965 * (ScoreDen \div 100000)

(***************************************************************************)
(* Properties of the reverse scan.                                         *)
(***************************************************************************)
ReverseReturned == rvPc = "returned"

\* the label reverseScan works on: the label part of the domain, decoded
DecodedLabel(domain) == decodePunycodeLabel(splitDomain(domain).label).output

\* a character recognised as a confusable: it has a prototype that is one
\* ASCII lower-case letter or digit other than itself
Recognised(c) ==
    /\ c \in DOMAIN CONFUSABLE_MAP_FULL
    /\ CONFUSABLE_MAP_FULL[c] \in (97..122) \cup (48..57)
    /\ CONFUSABLE_MAP_FULL[c] # c

RecognisedPositions(label) == {i \in DOMAIN label : Recognised(label[i])}

CanonicalLabel(label) ==
    [i \in DOMAIN label |->
        IF Recognised(label[i]) THEN CONFUSABLE_MAP_FULL[label[i]] ELSE label[i]]

\* C10: reverseScan returns at most one candidate; none exactly when no
\* character of the decoded label is recognised; otherwise one candidate whose
\* domain is canonical label + "." + tld, whose substitutions are the
\* recognised characters in increasing position, and whose similarity is the
\* mean of their stableDanger.
C10_AtMostOneCandidate ==
    ReverseReturned =>
        LET label == DecodedLabel(rvDomain)
            hits == RecognisedPositions(label)
            imp == rvResult.impersonates
        IN /\ Len(imp) <= 1
           /\ Len(imp) = 0 <=> hits = {}
           /\ Len(imp) = 1 =>
                LET subs == imp[1].substitutions
                IN /\ imp[1].domain
                        = CanonicalLabel(label) \o <<Ch.dot>>
                             \o splitDomain(rvDomain).tld
                   /\ Len(subs) = Cardinality(hits)
                   /\ \A k \in DOMAIN subs :
                        /\ subs[k].position + 1 \in hits
                        /\ subs[k].replacement = label[subs[k].position + 1]
                   /\ \A k \in 1..(Len(subs) - 1) :
                        subs[k].position < subs[k + 1].position
                   /\ imp[1].similarity.num * Len(subs)
                        = SumStableDanger(subs, Len(subs)) * imp[1].similarity.den

\* an ACE domain under a two-part TLD that decodes to three recognised
\* characters of different weights
C10_Witness ==
    /\ ReverseReturned
    /\ StartsWith(rvDomain, AcePrefix)
    /\ DecodedLabel(rvDomain) = <<Ch.cyrA, Ch.greekAlpha, Ch.latinAlpha>>
    /\ Len(rvResult.impersonates) = 1
    /\ rvResult.impersonates[1].domain
          = <<Ch.a, Ch.a, Ch.a, 46, 99, 111, 46, 117, 107>>
    /\ Len(rvResult.impersonates[1].substitutions) = 3
    /\ rvResult.impersonates[1].similarity.num = 16 + 17 + DefaultDanger
    /\ rvResult.impersonates[1].similarity.den = 3

\* the per-character rule seen from the result: the characters that qualify
\* are replaced by their prototype and recorded once each, the others are
\* emitted unchanged and not recorded; with no substitution there is no
\* candidate
PerCharacter(label, tld, imp, Qualifies(_)) ==
    LET hits == {i \in DOMAIN label : Qualifies(label[i])}
    IN IF hits = {} THEN imp = <<>>
       ELSE /\ Len(imp) = 1
            /\ Len(imp[1].domain) = Len(label) + 1 + Len(tld)
            /\ \A i \in DOMAIN label :
                  LET recorded == {k \in DOMAIN imp[1].substitutions :
                                     imp[1].substitutions[k].position = i - 1}
                  IN IF i \in hits
                     THEN /\ imp[1].domain[i] = CONFUSABLE_MAP_FULL[label[i]]
                          /\ Cardinality(recorded) = 1
                          /\ \A k \in recorded :
                                /\ imp[1].substitutions[k].original
                                      = CONFUSABLE_MAP_FULL[label[i]]
                                /\ imp[1].substitutions[k].replacement = label[i]
                     ELSE /\ imp[1].domain[i] = label[i]
                          /\ recorded = {}

\* C18 as stated: a character whose prototype is a single ASCII letter or
\* digit other than itself is recorded and replaced by the prototype, every
\* other character is emitted unchanged.
C18_AsStated ==
    ReverseReturned =>
        PerCharacter(DecodedLabel(rvDomain), splitDomain(rvDomain).tld,
                     rvResult.impersonates,
                     LAMBDA c : /\ c \in DOMAIN CONFUSABLE_MAP_FULL
                                /\ CONFUSABLE_MAP_FULL[c]
                                      \in (48..57) \cup (65..90) \cup (97..122)
                                /\ CONFUSABLE_MAP_FULL[c] # c)

\* C18: a character whose prototype is a single lower-case ASCII letter or
\* digit other than itself is recorded as Substitution(position, original =
\* prototype, replacement = character) and replaced by the prototype; every
\* other character is emitted unchanged and not recorded, so the canonical
\* label has the length of the decoded label and equals it wherever no
\* substitution is recorded.
C18_LowerCasePrototypesOnly ==
    ReverseReturned =>
        PerCharacter(DecodedLabel(rvDomain), splitDomain(rvDomain).tld,
                     rvResult.impersonates,
                     LAMBDA c : /\ c \in DOMAIN CONFUSABLE_MAP_FULL
                                /\ IsLowerAlnum(CONFUSABLE_MAP_FULL[c])
                                /\ CONFUSABLE_MAP_FULL[c] # c)

\* an ACE label decoding to a recorded character, a character without
\* prototype, and a character whose prototype is an upper-case letter
C18_Witness ==
    /\ ReverseReturned
    /\ StartsWith(rvDomain, AcePrefix)
    /\ DecodedLabel(rvDomain) = <<Ch.cyrA, Ch.a, Ch.cyrCapA>>
    /\ Len(rvResult.impersonates) = 1
    /\ SubSeq(rvResult.impersonates[1].domain, 1, 3) = <<Ch.a, Ch.a, Ch.cyrCapA>>
    /\ Len(rvResult.impersonates[1].substitutions) = 1

\* the decoder's error reaches the caller of reverseScan
ReverseThrew == rvPc = "threw"

\* the labels of the part of the domain before the TLD
LabelsBeforeTld(domain) == SplitOn(splitDomain(domain).label, Ch.dot)

HasAceLabel(domain) ==
    \E n \in DOMAIN LabelsBeforeTld(domain) :
        StartsWith(LabelsBeforeTld(domain)[n], AcePrefix)

\* what a result reports: canonical domain and (position, original,
\* replacement) of each substitution
Reported(result) ==
    [n \in DOMAIN result.impersonates |->
        [domain |-> result.impersonates[n].domain,
         edits |-> [k \in DOMAIN result.impersonates[n].substitutions |->
                      LET x == result.impersonates[n].substitutions[k]
                      IN <<x.position, x.original, x.replacement>>]]]

\* C30 as stated: for every domain with an ACE label before the TLD, alone
\* or behind a subdomain label, reverseScan of the ACE form reports the same
\* canonical domain and the same substitutions as reverseScan of the decoded
\* Unicode form.
C30_AsStated ==
    (rvPc = "returned" /\ HasAceLabel(rvDomain) /\ ~fromPunycode(rvDomain).threw) =>
        Reported(rvResult) = Reported(reverseScan(fromPunycode(rvDomain).output))

\* the ACE label behind a subdomain label is left encoded
C30_SubdomainLeftEncoded ==
    /\ rvPc = "returned"
    /\ Len(LabelsBeforeTld(rvDomain)) = 2
    /\ HasAceLabel(rvDomain)
    /\ rvResult.impersonates = <<>>
    /\ Reported(reverseScan(fromPunycode(rvDomain).output)) # <<>>

\* the variant whose label was handed to reverseScan
Reversed == {v \in Range(variants) : v.label \o <<Ch.dot>> \o DefaultTld = rvDomain}

\* C22 as stated: for every label over [a-z0-9] and every variant that
\* generateVariants produces for it from the default buckets, reverseScan of
\* the variant's label + '.' + tld reports exactly one impersonation
\* candidate, whose canonical domain is the original label + '.' + tld and
\* whose substitutions have the positions, originals and replacements of the
\* variant's.
C22_AsStated ==
    (pc = "generated" /\ rvPc = "returned") =>
        \A v \in Reversed :
            /\ Len(rvResult.impersonates) = 1
            /\ Reported(rvResult)
                  = << [domain |-> genLabel \o <<Ch.dot>> \o DefaultTld,
                        edits |-> [k \in DOMAIN v.substitutions |->
                                     <<v.substitutions[k].position,
                                       v.substitutions[k].original,
                                       v.substitutions[k].replacement>>]] >>

\* a variant whose substitute has no entry in CONFUSABLE_MAP_FULL comes back
\* with no impersonation candidate
C22_WeightOnlySubstituteLost ==
    /\ pc = "generated"
    /\ rvPc = "returned"
    /\ \E v \in Reversed :
          /\ Len(v.substitutions) = 1
          /\ v.substitutions[1].replacement \notin DOMAIN CONFUSABLE_MAP_FULL
    /\ rvResult.impersonates = <<>>

(***************************************************************************)
(* Properties of the ACE codec.                                            *)
(***************************************************************************)
\* fromPunycode has returned what it made of toPunycode's result
RoundTripped == acePc = "decoded" /\ aceInput # <<>>

IsAscii(s) == \A i \in DOMAIN s : s[i] < 128

\* C12 as stated: an ASCII-only domain encodes to itself, a domain with a
\* non-ASCII label encodes to a string starting with "xn--", and decoding
\* the encoded string gives back the original.
C12_AsStated ==
    /\ (acePc = "threw" => aceInput = <<>>)
    /\ RoundTripped =>
          /\ IsAscii(aceInput) => aceOutput = aceInput
          /\ ~IsAscii(aceInput) => StartsWith(aceOutput, AcePrefix)
          /\ aceDecoded = aceInput

\* C12 amended: an ASCII-only domain encodes to its lower-cased self, a
\* domain with a non-ASCII label encodes to an ASCII string starting with
\* "xn--", and decoding the encoded string gives back the lower-cased
\* original, without an error.
C12_AceRoundTrip ==
    /\ (acePc = "threw" => aceInput = <<>>)
    /\ RoundTripped =>
          /\ IsAscii(aceOutput)
          /\ IsAscii(aceInput) => aceOutput = LowerStr(aceInput)
          /\ ~IsAscii(aceInput) => StartsWith(aceOutput, AcePrefix)
          /\ aceDecoded = LowerStr(aceInput)

\* "Oа-.com": an upper-case letter, a non-basic character and a hyphen
C12_Witness ==
    /\ RoundTripped
    /\ aceInput = <<Ch.O, Ch.cyrA, Ch.hyphen, 46, 99, 111, 109>>
    /\ StartsWith(aceOutput, AcePrefix \o <<Ch.o, Ch.hyphen>>)
    /\ aceDecoded = <<Ch.o, Ch.cyrA, Ch.hyphen, 46, 99, 111, 109>>

\* C13 as stated: whatever the input, malformed ACE payloads included, the
\* decoder returns a string; no input makes it raise an error.
C13_AsStated == acePc # "threw"

(***************************************************************************)
(* Properties of the built graph.                                          *)
(***************************************************************************)
\* the pairs (A, B) of the two data sources with the weight each goes by;
\* lowered tells the pairs of CONFUSABLE_WEIGHTS, filed under lower-cased keys
SourcePairs ==
    {[a |-> c, b |-> CONFUSABLE_MAP_FULL[c], lowered |-> FALSE,
      w |-> LookupWeight(c, CONFUSABLE_MAP_FULL[c])] : c \in DOMAIN CONFUSABLE_MAP_FULL}
        \cup {[a |-> key[1], b |-> key[2], lowered |-> TRUE,
               w |-> CONFUSABLE_WEIGHTS[key]] : key \in DOMAIN CONFUSABLE_WEIGHTS}

\* the bucket key an end of a pair is filed under
KeyOf(q, c) == IF q.lowered THEN ToLower(c) ELSE c

\* the pairs the PVALID filter lets through
KeptPairs(includeNonPvalid) ==
    {q \in SourcePairs : q.a # q.b /\ (includeNonPvalid \/ q.w.idnaPvalid)}

\* sub is listed in the bucket of from
HasSub(from, sub) ==
    from \in DOMAIN buckets /\ \E k \in DOMAIN buckets[from] : buckets[from][k].char = sub

\* the bucket of from holds as many entries as the cap allows
AtCap(from) ==
    from \in DOMAIN buckets /\ Len(buckets[from]) = buildOpts.maxPerChar

InsertedEdges(from, sub, includeNonPvalid) ==
    {q.w : q \in {x \in KeptPairs(includeNonPvalid) :
                     \/ (KeyOf(x, x.a) = from /\ x.b = sub)
                     \/ (KeyOf(x, x.b) = from /\ x.a = sub)}}

\* C15 as stated: a built entry carries the danger and stableDanger of the
\* inserted edge with the highest stableDanger, and its idnaPvalid flag is the
\* OR of the flags of all the edges inserted for it, whatever the order.
C15_AsStated ==
    Built =>
        \A proto \in DOMAIN buckets : \A k \in DOMAIN buckets[proto] :
            LET entry == buckets[proto][k]
                edges == InsertedEdges(proto, entry.char, buildOpts.includeNonPvalid)
            IN /\ edges # {}
               /\ \A e \in edges : e.stableDanger <= entry.stableDanger
               /\ \E e \in edges : /\ e.stableDanger = entry.stableDanger
                                    /\ e.danger = entry.danger
               /\ entry.idnaPvalid <=> \E e \in edges : e.idnaPvalid

(***************************************************************************)
(* Properties of the font search.                                          *)
(***************************************************************************)
\* the font's danger for a substitution: the pair looked up in both
\* directions, then with the original in upper case; 0 when it has no entry
ClaimedFontDanger(weights, sub) ==
    IF <<sub.replacement, sub.original>> \in DOMAIN weights
    THEN weights[<<sub.replacement, sub.original>>]
    ELSE IF <<sub.original, sub.replacement>> \in DOMAIN weights
    THEN weights[<<sub.original, sub.replacement>>]
    ELSE IF <<sub.replacement, ToUpper(sub.original)>> \in DOMAIN weights
    THEN weights[<<sub.replacement, ToUpper(sub.original)>>]
    ELSE IF <<ToUpper(sub.original), sub.replacement>> \in DOMAIN weights
    THEN weights[<<ToUpper(sub.original), sub.replacement>>]
    ELSE 0

Covers(weights, sub) ==
    \E key \in {<<sub.replacement, sub.original>>, <<sub.original, sub.replacement>>,
                 <<sub.replacement, ToUpper(sub.original)>>,
                 <<ToUpper(sub.original), sub.replacement>>} : key \in DOMAIN weights

Eligible(f, subs) ==
    \A n \in DOMAIN subs : Covers(FONT_SPECIFIC_WEIGHTS[f].weights, subs[n])

RECURSIVE ClaimedProduct(_, _, _)
ClaimedProduct(f, subs, n) ==
    IF n = 0 THEN Pow(ScoreUnit, MaxSubs - Len(subs))
    ELSE ClaimedFontDanger(FONT_SPECIFIC_WEIGHTS[f].weights, subs[n])
            * ClaimedProduct(f, subs, n - 1)

C17_AsStated ==
    (ftPc = "scored" /\ ftOpts.font # "") =>
        \A n \in DOMAIN ftScored :
            LET v == ftScored[n]
                known == {f \in DOMAIN FONT_SPECIFIC_WEIGHTS :
                             FONT_SPECIFIC_WEIGHTS[f].name = ftOpts.font}
            IN IF \E f \in known : Eligible(f, v.substitutions)
               THEN /\ v.hasFont
                    /\ v.bestFont = ftOpts.font
                    /\ \E f \in known :
                          v.bestFontSsim
                             = ClaimedProduct(f, v.substitutions, Len(v.substitutions))
               ELSE ~v.hasFont

(***************************************************************************)
(* Properties of the DNS resolvers.                                        *)
(***************************************************************************)
\* C19: in every DnsResult of either resolver, hasMx holds iff the MX list is
\* non-empty, registered iff the A, AAAA or NS list is non-empty, threatLevel
\* is "active" iff there are MX records, "parked" iff registered without MX,
\* and "unregistered" otherwise, which is exactly when all four lists are
\* empty.
C19_DnsResultClassified ==
    dnsResult # NoDnsResult =>
        /\ dnsResult.hasMx <=> dnsResult.mx # <<>>
        /\ dnsResult.registered <=>
              (dnsResult.a # <<>> \/ dnsResult.aaaa # <<>> \/ dnsResult.ns # <<>>)
        /\ dnsResult.threatLevel = "active" <=> dnsResult.mx # <<>>
        /\ dnsResult.threatLevel = "parked" <=>
              (dnsResult.registered /\ dnsResult.mx = <<>>)
        /\ dnsResult.threatLevel = "unregistered" <=>
              (dnsResult.a = <<>> /\ dnsResult.aaaa = <<>>
                 /\ dnsResult.mx = <<>> /\ dnsResult.ns = <<>>)

\* a DNS-over-HTTPS result with MX records and no address or NS record:
\* active although not registered
C19_Witness ==
    /\ resolver = "doh"
    /\ dnsResult # NoDnsResult
    /\ dnsResult.mx # <<>>
    /\ ~dnsResult.registered
    /\ dnsResult.threatLevel = "active"

\* the calls that hold a slot of the semaphore
Holders == {call \in Calls : callPc[call] \in {"admitted", "lookup"}}

\* C20: with concurrency c >= 1, in every interleaving of resolve() calls,
\* completions and failures, at most c lookups are in flight; the running
\* count is never above c nor negative, and a waiting call is admitted only
\* in a step in which a holder releases.
C20_FanOutBounded ==
    /\ [](semMax >= 1 =>
            /\ Cardinality({call \in Calls : callPc[call] = "lookup"}) <= semMax
            /\ semRunning = Cardinality(Holders)
            /\ semRunning <= semMax
            /\ semRunning >= 0)
    /\ [][\A call \in Calls :
            (callPc[call] = "waiting" /\ callPc'[call] # "waiting") =>
                /\ callPc'[call] = "admitted"
                /\ \E holder \in Calls :
                      callPc[holder] = "lookup" /\ callPc'[holder] = "returned"]_vars

\* every slot is taken and a call waits behind them
C20_Witness ==
    /\ semRunning = semMax
    /\ semMax = MaxConcurrency
    /\ semQueue # <<>>
    /\ \E call \in Calls : callPc[call] = "lookup"

(***************************************************************************)
(* Properties of scan.                                                     *)
(***************************************************************************)
\* the raw variants of the scan that returned snResult
ScannedRaw ==
    generateVariants(snResult.label,
                     [maxEdits |-> snOpts.maxEdits, maxPerChar |-> snOpts.maxPerChar,
                      maxVariants |-> snOpts.maxVariants,
                      useMaxDanger |-> snOpts.useMaxDanger],
                     buildPrototypeBuckets(
                        [includeNonPvalid |-> snOpts.includeNonPvalid,
                         maxPerChar |-> snOpts.maxPerChar,
                         useMaxDanger |-> snOpts.useMaxDanger]))

\* its target TLDs
ScannedTlds ==
    Range(getTargetTlds(IF snOpts.tlds = <<>> THEN <<snResult.tld>> ELSE snOpts.tlds,
                        snOpts.tldVariants, ScriptsSeen(ScannedRaw)))

\* every raw variant scored for every target TLD
ScanCandidates ==
    {ScoreOne(generated, target, [useMaxDanger |-> snOpts.useMaxDanger,
                                  font |-> snOpts.font]) :
        generated \in Range(ScannedRaw), target \in ScannedTlds}

ScanPassing == {v \in ScanCandidates : v.dangerScore >= snOpts.threshold}

\* C11: without DNS resolution scan returns the first top entries of the
\* scored variants of every target TLD that meet the threshold, sorted
\* non-increasing by dangerScore: each returned variant is one of them and
\* meets the threshold, at most top are returned, none is returned twice, no
\* variant left out scores above a returned one, and adjacent variants are
\* non-increasing in dangerScore.
C11_TopOfFilteredSorted ==
    snPc = "returned" =>
        LET vs == snResult.variants
        IN /\ \A i \in DOMAIN vs : vs[i] \in ScanPassing
           /\ \A i, k \in DOMAIN vs : i # k => vs[i].domain # vs[k].domain
           /\ Len(vs) = Min(snOpts.top, Cardinality(ScanPassing))
           /\ \A i \in 1..(Len(vs) - 1) : vs[i].dangerScore >= vs[i + 1].dangerScore
           /\ \A v \in ScanPassing \ Range(vs) :
                 \A i \in DOMAIN vs : v.dangerScore <= vs[i].dangerScore

\* a scan over several TLDs in which the threshold removes candidates, the
\* cap removes more, and the returned scores strictly decrease somewhere
C11_Witness ==
    /\ snPc = "returned"
    /\ Cardinality(ScannedTlds) > 1
    /\ snOpts.threshold > 0
    /\ ScanPassing # ScanCandidates
    /\ Cardinality(ScanPassing) > snOpts.top
    /\ Len(snResult.variants) = snOpts.top
    /\ \E i \in 1..(Len(snResult.variants) - 1) :
          snResult.variants[i].dangerScore > snResult.variants[i + 1].dangerScore

(***************************************************************************)
(* The target TLDs of a scan, from the scripts of the substitutions        *)
(***************************************************************************)

\* how many substitutions a call's scripts are collected from
MaxScriptChars == 2

\* replacement characters, one of each script that getScript tells apart here
ScriptChars ==
    {Ch.cyrA, Ch.greekAlpha, Ch.arabicAlef, Ch.devZero, Ch.thaiZero, Ch.hangulI,
     Ch.hanStick}

\* base lists: absent, the TLD of the domain, two TLDs, an IDN TLD
BaseTldLists ==
    {<<>>, << <<99, 111, 109>> >>, << <<99, 111, 109>>, <<110, 101, 116>> >>,
     IDN_TLDS["Cyrillic"]}

\* the scripts scan collects: getScript of each substitute, first-seen order
ScriptsOfChars(chars) ==
    AddAllToSet(<<>>, [k \in DOMAIN chars |-> getScript(chars[k])])

CallGetTargetTlds(baseTlds, tldVariants, chars) ==
    /\ tgPc = "idle"
    /\ tgBase' = baseTlds
    /\ tgVariants' = tldVariants
    /\ tgChars' = chars
    /\ tgResult' = getTargetTlds(baseTlds, tldVariants, ScriptsOfChars(chars))
    /\ tgPc' = "returned"

TargetTldsDone ==
    /\ tgPc = "returned"
    /\ tgPc' = "idle"
    /\ tgBase' = <<>>
    /\ tgVariants' = FALSE
    /\ tgChars' = <<>>
    /\ tgResult' = <<>>

InitTargetTlds == GenIdle /\ InitScore /\ InitReverse /\ InitRest

NextTlds ==
    \/ \E baseTlds \in BaseTldLists, tldVariants \in BOOLEAN,
          chars \in StringsOver(ScriptChars, MaxScriptChars) :
          CallGetTargetTlds(baseTlds, tldVariants, chars)
             /\ UNCHANGED <<coreVars, rlVars, bkVars, btVars, wsVars, shVars>>
    \/ TargetTldsDone
          /\ UNCHANGED <<coreVars, rlVars, bkVars, btVars, wsVars, shVars>>

SpecTlds == InitTargetTlds /\ [][NextTlds]_vars

\* the scripts the IDN table is meant to cover, by the name getScript gives
\* them, with the TLDs the table lists for each
CoveredScriptTlds ==
    [s \in {"Cyrillic", "Arabic", "Han", "Hangul", "Thai", "Devanagari"} |->
        IDN_TLDS[IF s = "Hangul" THEN "Korean" ELSE s]]

BaseOf(baseTlds) == IF baseTlds = <<>> THEN DEFAULT_TLDS ELSE baseTlds

\* C28: the list getTargetTlds returns has no duplicates, holds every base
\* TLD, and for every substitution in a script covered by IDN_TLDS (Cyrillic,
\* Arabic, Han, Korean/Hangul, Thai, Devanagari) holds that script's IDN TLDs
C28_AsStated ==
    tgPc = "returned" =>
        /\ \A i, j \in DOMAIN tgResult : tgResult[i] = tgResult[j] => i = j
        /\ Range(BaseOf(tgBase)) \subseteq Range(tgResult)
        /\ \A k \in DOMAIN tgChars :
              getScript(tgChars[k]) \in DOMAIN CoveredScriptTlds =>
                  Range(CoveredScriptTlds[getScript(tgChars[k])]) \subseteq Range(tgResult)

\* a Hangul substitution was seen and the Korean TLD is not among the targets
C28_KoreanTldNotScanned ==
    /\ tgPc = "returned"
    /\ \E k \in DOMAIN tgChars : getScript(tgChars[k]) = "Hangul"
    /\ ~(Range(IDN_TLDS["Korean"]) \subseteq Range(tgResult))

\* C28 (what the code does keep): no duplicates, every base TLD, and the IDN
\* TLDs of every script name that is a key of IDN_TLDS
C28_ListedScriptsCovered ==
    tgPc = "returned" =>
        /\ \A i, j \in DOMAIN tgResult : tgResult[i] = tgResult[j] => i = j
        /\ Range(BaseOf(tgBase)) \subseteq Range(tgResult)
        /\ \A k \in DOMAIN tgChars :
              getScript(tgChars[k]) \in DOMAIN IDN_TLDS =>
                  Range(IDN_TLDS[getScript(tgChars[k])]) \subseteq Range(tgResult)

(***************************************************************************)
(* The worker's in-memory rate limiter                                     *)
(***************************************************************************)

\* const window = 60_000 and const maxRequests = 10
window == 60000
maxRequests == 10

\* the map size above which expired entries are swept; 1000 in the source,
\* scaled to the number of clients modelled
SweepSize == 1

\* how many checkRateLimit calls a behaviour makes, and how many windows the
\* clock runs through
MaxRateCalls == 5
MaxWindows == 2

ClientIps == {"ip1", "ip2"}

\* the costs the fetch handler charges: 5 for a scan with DNS, 1 otherwise
Costs == {1, 5}

\* the instants Date.now() is read at: each window's first millisecond and
\* the one before it
Instants == {k * window + e : k \in 0..MaxWindows, e \in {0, 1}}

\* the entry checkRateLimit works on: the stored one, or a fresh one when
\* there is none or its window is over
EntryAt(limits, ip, now) ==
    IF ip \notin DOMAIN limits \/ now > limits[ip].resetAt
    THEN [count |-> 0, resetAt |-> now + window]
    ELSE limits[ip]

\* the sweep: with more than SweepSize entries, the expired ones are deleted
Sweep(limits, now) ==
    IF Cardinality(DOMAIN limits) > SweepSize
    THEN [k \in {i \in DOMAIN limits : ~(now > limits[i].resetAt)} |-> limits[k]]
    ELSE limits

\* a limiter that compares the count before the cost is added
checkRateLimit_CheckFirst(limits, ip, cost, now) ==
    LET entry == EntryAt(limits, ip, now)
        counted == [entry EXCEPT !.count = @ + cost]
        stored == [k \in DOMAIN limits \cup {ip} |->
                      IF k = ip THEN counted ELSE limits[k]]
    IN [limits |-> Sweep(stored, now), allowed |-> entry.count <= maxRequests]

\* checkRateLimit(ip, cost) with Date.now() = now: the map after the call and
\* the value returned
checkRateLimit(limits, ip, cost, now) ==
    LET entry == EntryAt(limits, ip, now)
        counted == [entry EXCEPT !.count = @ + cost]
        stored == [k \in DOMAIN limits \cup {ip} |->
                      IF k = ip THEN counted ELSE limits[k]]
    IN [limits |-> Sweep(stored, now), allowed |-> counted.count <= maxRequests]

\* whether the call opens a new window for the ip
OpensWindow(limits, ip, now) ==
    ip \notin DOMAIN limits \/ now > limits[ip].resetAt

\* a request of the given cost from ip reaches a rate-limited route at now;
\* the handler serves it when checkRateLimit returns true and answers 429
\* otherwise
CallCheckRateLimit(ip, cost, now) ==
    /\ rlCalls < MaxRateCalls
    /\ now >= rlNow
    /\ LET r == checkRateLimit(rateLimits, ip, cost, now)
           before == IF ip \in DOMAIN rlServed /\ ~OpensWindow(rateLimits, ip, now)
                     THEN rlServed[ip] ELSE 0
       IN /\ rateLimits' = r.limits
          /\ rlLast' = [ip |-> ip, cost |-> cost, allowed |-> r.allowed]
          /\ rlServed' = [k \in DOMAIN r.limits |->
                             IF k = ip
                             THEN before + (IF r.allowed THEN cost ELSE 0)
                             ELSE rlServed[k]]
    /\ rlNow' = now
    /\ rlCalls' = rlCalls + 1

\* the isolate is recycled: the in-memory map starts empty again
IsolateRestart ==
    /\ rlCalls = MaxRateCalls
    /\ rateLimits' = <<>>
    /\ rlNow' = 0
    /\ rlLast' = NoCall
    /\ rlServed' = <<>>
    /\ rlCalls' = 0

InitLimiter == GenIdle /\ InitScore /\ InitReverse /\ InitRest

NextLimiter ==
    \/ \E ip \in ClientIps, cost \in Costs, now \in Instants :
          CallCheckRateLimit(ip, cost, now) /\ UNCHANGED <<coreVars, tgVars, bkVars, btVars, wsVars, shVars>>
    \/ IsolateRestart /\ UNCHANGED <<coreVars, tgVars, bkVars, btVars, wsVars, shVars>>

SpecLimiter == InitLimiter /\ [][NextLimiter]_vars

\* one step of the limiter as the claim describes it, for the ip of the call
RateStepOk ==
    rlCalls' = rlCalls + 1 =>
        LET ip == rlLast'.ip
            cost == rlLast'.cost
            had == ip \in DOMAIN rateLimits
            inWindow == had /\ ~(rlNow' > rateLimits[ip].resetAt)
        IN /\ ip \in DOMAIN rateLimits'
           \* within a window the cost is added whether or not the call is allowed
           /\ inWindow =>
                 /\ rateLimits'[ip].count = rateLimits[ip].count + cost
                 /\ rateLimits'[ip].resetAt = rateLimits[ip].resetAt
           \* once over the limit, every later call in the window is denied
           /\ (inWindow /\ rateLimits[ip].count > maxRequests) => ~rlLast'.allowed
           \* the count restarts only after the reset time has passed
           /\ ~inWindow =>
                 /\ rateLimits'[ip].count = cost
                 /\ rateLimits'[ip].resetAt = rlNow' + window
           /\ (had /\ rateLimits'[ip].count <= rateLimits[ip].count) =>
                 rlNow' > rateLimits[ip].resetAt
           \* no other client's window is restarted or charged
           /\ \A k \in DOMAIN rateLimits' \ {ip} :
                 k \in DOMAIN rateLimits /\ rateLimits'[k] = rateLimits[k]
           /\ \A k \in DOMAIN rateLimits \ (DOMAIN rateLimits' \cup {ip}) :
                 rlNow' > rateLimits[k].resetAt

\* C27: per client and window the requests checkRateLimit allows cost at
\* most 10 in total; a denied request still adds its cost, so once the count
\* is over 10 every later request of the window is denied; the count restarts
\* only after the window's reset time has passed
C27_WindowBudget ==
    /\ [](\A ip \in DOMAIN rlServed : rlServed[ip] <= maxRequests)
    /\ [](\A ip \in DOMAIN rateLimits : rlServed[ip] <= rateLimits[ip].count)
    /\ [][RateStepOk]_vars

\* a client was denied twice in a row in one window, its count past the limit
\* by more than one request, after another client's expired entry was swept
C27_Witness ==
    /\ ~rlLast.allowed
    /\ rlLast.ip \in DOMAIN rateLimits
    /\ rateLimits[rlLast.ip].count > maxRequests + rlLast.cost
    /\ rlServed[rlLast.ip] = maxRequests
    /\ rlNow > window
    /\ Cardinality(DOMAIN rateLimits) = 1

(***************************************************************************)
(* The cached bucket instances: the worker's getBuckets and                *)
(* getDefaultBuckets, and generation calls that are handed one             *)
(***************************************************************************)

\* buildPrototypeBuckets' own default for maxPerChar
BuildMaxPerChar == 50

\* the options of the worker's generation call: maxEdits 1, maxVariants 2000
\* and maxPerChar 10, which is also the cap its cached table is built with.
\* The cap is scaled to the sample tables, whose buckets hold two PVALID
\* substitutes, so that it binds as a cap of 10 does on the full tables.
WorkerMaxEdits == 1
WorkerMaxVariants == 2000
WorkerMaxPerChar == 1

\* the options a cached table was built with, as buildPrototypeBuckets
\* resolves them
WorkerBucketConfig ==
    [includeNonPvalid |-> FALSE, maxPerChar |-> WorkerMaxPerChar, useMaxDanger |-> FALSE]

DefaultBucketConfig ==
    [includeNonPvalid |-> FALSE, maxPerChar |-> BuildMaxPerChar, useMaxDanger |-> FALSE]

\* if (!cachedBuckets) cachedBuckets = buildPrototypeBuckets(config);
\* the cache after the call
getBuckets(cache, config) ==
    IF ~cache.built
    THEN [built |-> TRUE, config |-> config, table |-> buildPrototypeBuckets(config)]
    ELSE cache

\* runScan's generation options
WorkerOptions(useMaxDanger) ==
    [maxEdits |-> WorkerMaxEdits, maxPerChar |-> WorkerMaxPerChar,
     maxVariants |-> WorkerMaxVariants, useMaxDanger |-> useMaxDanger,
     includeNonPvalid |-> FALSE]

\* the labels handed to the generator
BucketLabels == StringsOver({Ch.a, Ch.o}, MaxScanLabelLen) \ {<<>>}

\* GenerateOptions of a library caller
CallerOptions ==
    [maxEdits : {1, 2}, maxPerChar : 1..MaxPerCharBound,
     maxVariants : {MaxVariantsBound}, useMaxDanger : BOOLEAN,
     includeNonPvalid : BOOLEAN]

\* runScan: buckets = getBuckets(); generateVariants(label, {...}, buckets)
CallWorkerGenerate(label, useMaxDanger) ==
    /\ bkPc = "idle"
    /\ wkBuckets' = getBuckets(wkBuckets, WorkerBucketConfig)
    /\ bkCall' = [cache |-> "worker", label |-> label,
                  options |-> WorkerOptions(useMaxDanger),
                  config |-> wkBuckets'.config,
                  variants |-> generateVariants(label, WorkerOptions(useMaxDanger),
                                                wkBuckets'.table)]
    /\ bkPc' = "returned"
    /\ UNCHANGED dfBuckets

\* a caller of the library: generateVariants(label, options, getDefaultBuckets())
CallDefaultGenerate(label, options) ==
    /\ bkPc = "idle"
    /\ dfBuckets' = getBuckets(dfBuckets, DefaultBucketConfig)
    /\ bkCall' = [cache |-> "default", label |-> label, options |-> options,
                  config |-> dfBuckets'.config,
                  variants |-> generateVariants(label, options, dfBuckets'.table)]
    /\ bkPc' = "returned"
    /\ UNCHANGED wkBuckets

\* the caller takes the variants; the caches stay
BucketCallDone ==
    /\ bkPc = "returned"
    /\ bkPc' = "idle"
    /\ bkCall' = NoBucketCall
    /\ UNCHANGED <<wkBuckets, dfBuckets>>

\* a new isolate or process: the module-level caches are null again
ModuleReload ==
    /\ bkPc = "idle"
    /\ wkBuckets.built \/ dfBuckets.built
    /\ wkBuckets' = NoBuckets
    /\ dfBuckets' = NoBuckets
    /\ UNCHANGED <<bkPc, bkCall>>

InitBucketCache == GenIdle /\ InitScore /\ InitReverse /\ InitRest

NextBuckets ==
    \/ \E label \in BucketLabels, useMaxDanger \in BOOLEAN :
          CallWorkerGenerate(label, useMaxDanger) /\ UNCHANGED <<coreVars, tgVars, rlVars, btVars, wsVars, shVars>>
    \/ \E label \in BucketLabels, options \in CallerOptions :
          CallDefaultGenerate(label, options) /\ UNCHANGED <<coreVars, tgVars, rlVars, btVars, wsVars, shVars>>
    \/ BucketCallDone /\ UNCHANGED <<coreVars, tgVars, rlVars, btVars, wsVars, shVars>>
    \/ ModuleReload /\ UNCHANGED <<coreVars, tgVars, rlVars, btVars, wsVars, shVars>>

SpecBuckets == InitBucketCache /\ [][NextBuckets]_vars

\* the bucket options generateVariants would build its own table with
OwnConfig(options) ==
    [includeNonPvalid |-> options.includeNonPvalid, maxPerChar |-> options.maxPerChar,
     useMaxDanger |-> options.useMaxDanger]

\* the variants of the same call when it builds its own table
OwnVariants(call) ==
    CHOOSE vs \in {generateVariants(lbl, opts, buildPrototypeBuckets(OwnConfig(opts))) :
                      lbl \in {call.label}, opts \in {call.options}} : TRUE

\* C23: a cached bucket instance passed to a generation call was built with
\* the same includeNonPvalid, maxPerChar and useMaxDanger as the call's
\* options, and the call returns the variants it would return when building
\* its buckets from its own options
C23_AsStated ==
    bkPc = "returned" =>
        /\ bkCall.config = OwnConfig(bkCall.options)
        /\ bkCall.variants = OwnVariants(bkCall)

\* the worker's table, built for stableDanger, serves a call with
\* useMaxDanger and the call returns other variants than with its own table
C23_WorkerTableOfOtherKey ==
    /\ bkPc = "returned"
    /\ bkCall.cache = "worker"
    /\ bkCall.options.useMaxDanger
    /\ bkCall.config # OwnConfig(bkCall.options)
    /\ {v.label : v \in Range(bkCall.variants)}
          # {v.label : v \in Range(OwnVariants(bkCall))}

\* C23 (what the code does keep): a call whose options resolve to the options
\* the cached table was built with returns the variants of its own table
C23_SameKeySameVariants ==
    (bkPc = "returned" /\ bkCall.config = OwnConfig(bkCall.options)) =>
        bkCall.variants = OwnVariants(bkCall)

C23_SameKeyWitness ==
    /\ bkPc = "returned"
    /\ bkCall.config = OwnConfig(bkCall.options)
    /\ bkCall.variants # <<>>

(***************************************************************************)
(* scan with DNS resolution: the library's scan over the Node resolver and *)
(* the worker's runScan over the DNS-over-HTTPS resolver                   *)
(***************************************************************************)

\* runScan's ceiling on top
WorkerTopCeiling == 200

\* a DomainVariant with its dns property set
WithDns(v, d) == [f \in DOMAIN v \cup {"dns"} |-> IF f = "dns" THEN d ELSE v[f]]

\* the options scan is given here; the other ScanOptions are left absent
\* (maxEdits 2, maxPerChar and maxVariants not binding on the sample)
BatchScanOptions(call) ==
    [includeNonPvalid |-> FALSE, maxPerChar |-> MaxPerCharBound, useMaxDanger |-> FALSE,
     maxEdits |-> 2, maxVariants |-> MaxVariantsBound, top |-> call.top,
     threshold |-> call.threshold, tlds |-> <<>>, tldVariants |-> FALSE, font |-> ""]

\* runScan up to the cap: generation over the cached table, target TLDs from
\* the domain's own TLD and the scripts, scores, filter, sort and slice
RunScanGenerated(domain, options, split, generated) ==
    [original |-> domain, label |-> split.label, tld |-> split.tld,
     totalGenerated |-> Len(generated),
     variants |->
        FilterSortCap(
            ScoreForTlds(generated,
                         getTargetTlds(<<split.tld>>, FALSE, ScriptsSeen(generated)),
                         options),
            options.threshold, Min(WorkerTopCeiling, options.top))]

runScanCapped(domain, options, table) ==
    RunScanGenerated(domain, options, splitDomain(domain),
        generateVariants(splitDomain(domain).label,
                         WorkerOptions(options.useMaxDanger), table))

\* the list left as the lookups returned it
Resort_AsResolved(vs) == vs

\* the comparator of the re-sort: registered first, then threatLevel
\* "active", then the higher dangerScore
ResortCompare(a, b) ==
    LET aRegistered == IF a.dns.registered THEN 1 ELSE 0
        bRegistered == IF b.dns.registered THEN 1 ELSE 0
        aActive == IF a.dns.threatLevel = "active" THEN 1 ELSE 0
        bActive == IF b.dns.threatLevel = "active" THEN 1 ELSE 0
    IN IF aRegistered # bRegistered THEN bRegistered - aRegistered
       ELSE IF aActive # bActive THEN bActive - aActive
       ELSE b.dangerScore - a.dangerScore

\* one element put into a list sorted by the comparator, behind its equals
RECURSIVE InsertResorted(_, _)
InsertResorted(sorted, v) ==
    IF sorted = <<>> THEN <<v>>
    ELSE IF ResortCompare(Head(sorted), v) <= 0
         THEN <<Head(sorted)>> \o InsertResorted(Tail(sorted), v)
         ELSE <<v>> \o sorted

\* allVariants.sort(comparator): a stable sort
RECURSIVE Resort(_)
Resort(vs) ==
    IF vs = <<>> THEN <<>>
    ELSE InsertResorted(Resort(SubSeq(vs, 1, Len(vs) - 1)), vs[Len(vs)])

\* allVariants.map(async (v) => ... resolver.resolve(v.domain)): every call
\* runs to its first await, so the first n acquire() calls are made in order
RECURSIVE AcquireAll(_, _)
AcquireAll(n, max) ==
    IF n = 0 THEN [running |-> 0, queue |-> <<>>, granted |-> <<>>]
    ELSE LET prev == AcquireAll(n - 1, max)
             s == acquire(prev.running, prev.queue, max, n)
         IN [running |-> s.running, queue |-> s.queue,
             granted |-> Append(prev.granted, s.granted)]

\* the largest top of a scan with DNS: the most resolve() calls of one batch
MaxBatch == 2

\* the calls made here and the domains scanned
BatchCalls ==
    [kind : {"scan"}, domain : {<<Ch.a, 46, 99, 111, 109>>, <<Ch.O, Ch.a, 46, 99, 111, 109>>},
     top : 0..MaxBatch, threshold : Thresholds, resolve : BOOLEAN,
     concurrency : 1..MaxConcurrency]
    \cup
    [kind : {"runScan"}, domain : {<<Ch.O, 46, 99, 111, 109>>, <<Ch.O, Ch.a, 46, 99, 111, 109>>},
     top : 0..MaxBatch, threshold : Thresholds, resolve : BOOLEAN,
     concurrency : {1}]

\* what the record lookups of one resolve() call can do here: the A and MX
\* lookups answer, fail or time out; the AAAA and NS lookups fail or time out
BatchOutcomes(type) ==
    IF type \in {RR_A, RR_MX} THEN LookupOutcomes(type)
    ELSE {o \in LookupOutcomes(type) : o.kind # "ok"}

BatchAnswers(type) ==
    IF type \in {RR_A, RR_MX} THEN DohAnswers(type) ELSE {<<>>, <<RR_CNAME>>}

\* the components a scan with DNS leaves alone
batchFrame ==
    <<genVars, scVars, rvVars, aceVars, ftVars, snVars, tgVars, rlVars,
      dfBuckets, bkPc, bkCall, wsVars, shVars>>

\* the resolve branch entered with the capped list: every resolver.resolve
\* call of allVariants.map is made
StartLookups(call, capped) ==
    LET asked == Len(capped.variants)
        sem == AcquireAll(asked, call.concurrency)
    IN    /\ btCall' = call
          /\ IF call.resolve
             THEN /\ btPc' = "resolving"
                  /\ btList' = [slot \in 1..asked |-> WithDns(capped.variants[slot], NoDnsResult)]
                  /\ btAsked' = [slot \in 1..asked |-> capped.variants[slot].domain]
                  /\ btResult' = [capped EXCEPT !.variants = <<>>]
                  /\ resolver' = IF call.kind = "runScan" THEN "doh" ELSE "node"
                  /\ semMax' = call.concurrency
                  /\ semRunning' = IF call.kind = "runScan" THEN 0 ELSE sem.running
                  /\ semQueue' = IF call.kind = "runScan" THEN <<>> ELSE sem.queue
                  /\ callPc' = [c \in Calls |->
                                   IF c > asked THEN "idle"
                                   ELSE IF call.kind = "runScan" THEN "lookup"
                                   ELSE IF sem.granted[c] THEN "admitted"
                                   ELSE "waiting"]
                  /\ UNCHANGED dnsResult
             ELSE /\ btPc' = "returned"
                  /\ btList' = capped.variants
                  /\ btAsked' = <<>>
                  /\ btResult' = capped
                  /\ UNCHANGED dnsVars

\* scan / runScan up to and including the start of the lookups
ScanStart(call) ==
    /\ btPc = "idle"
    /\ \A c \in Calls : callPc[c] = "idle"
    /\ call.top <= MaxCalls
    /\ wkBuckets' = IF call.kind = "runScan"
                    THEN getBuckets(wkBuckets, WorkerBucketConfig) ELSE wkBuckets
    /\ StartLookups(call,
                     IF call.kind = "runScan"
                     THEN runScanCapped(call.domain,
                                        [useMaxDanger |-> FALSE, font |-> "",
                                         threshold |-> call.threshold, top |-> call.top],
                                        wkBuckets'.table)
                     ELSE scan(call.domain, BatchScanOptions(call)))

\* an admitted resolve() call goes on to its four lookups
BatchLookup(call) ==
    /\ btPc = "resolving"
    /\ ResolveStart(call)
    /\ UNCHANGED btVars

\* a Node resolve() call settles; v.dns is assigned
BatchNodeReturn(call, oa, oaaaa, omx, ons) ==
    /\ btPc = "resolving"
    /\ resolver = "node"
    /\ ResolveReturn(call, oa, oaaaa, omx, ons)
    /\ btList' = [btList EXCEPT ![call] = WithDns(@, dnsResult')]
    /\ UNCHANGED <<btPc, btCall, btAsked, btResult>>

\* a DNS-over-HTTPS resolve() call settles; v.dns is assigned
BatchDohReturn(call, aAnswers, aaaaAnswers, mxAnswers, nsAnswers) ==
    /\ btPc = "resolving"
    /\ resolver = "doh"
    /\ callPc[call] = "lookup"
    /\ dnsResult' = DnsResultOf(FilterType(aAnswers, RR_A),
                                FilterType(aaaaAnswers, RR_AAAA),
                                FilterType(mxAnswers, RR_MX),
                                FilterType(nsAnswers, RR_NS))
    /\ callPc' = [callPc EXCEPT ![call] = "returned"]
    /\ btList' = [btList EXCEPT ![call] = WithDns(@, dnsResult')]
    /\ UNCHANGED <<semMax, semRunning, semQueue, resolver, btPc, btCall, btAsked, btResult>>

\* Promise.all settles: the re-sort, and the ScanResult is returned
BatchFinish ==
    /\ btPc = "resolving"
    /\ \A c \in DOMAIN btList : callPc[c] = "returned"
    /\ btResult' = [btResult EXCEPT !.variants = Resort(btList)]
    /\ btPc' = "returned"
    /\ UNCHANGED <<dnsVars, btCall, btList, btAsked>>

\* the caller takes the result
BatchDone ==
    /\ btPc = "returned"
    /\ btPc' = "idle"
    /\ btCall' = NoBatchCall
    /\ btList' = <<>>
    /\ btAsked' = <<>>
    /\ btResult' = NoScanResult
    /\ semMax' = 1
    /\ semRunning' = 0
    /\ semQueue' = <<>>
    /\ callPc' = [c \in Calls |-> "idle"]
    /\ resolver' = "node"
    /\ dnsResult' = NoDnsResult

InitBatch == GenIdle /\ InitScore /\ InitReverse /\ InitRest

NextBatch ==
    \/ \E call \in BatchCalls : ScanStart(call) /\ UNCHANGED batchFrame
    \/ \E call \in Calls : BatchLookup(call) /\ UNCHANGED <<batchFrame, wkBuckets>>
    \/ \E call \in Calls, oa \in BatchOutcomes(RR_A), oaaaa \in BatchOutcomes(RR_AAAA),
          omx \in BatchOutcomes(RR_MX), ons \in BatchOutcomes(RR_NS) :
          BatchNodeReturn(call, oa, oaaaa, omx, ons) /\ UNCHANGED <<batchFrame, wkBuckets>>
    \/ \E call \in Calls, aAnswers \in BatchAnswers(RR_A),
          aaaaAnswers \in BatchAnswers(RR_AAAA), mxAnswers \in BatchAnswers(RR_MX),
          nsAnswers \in BatchAnswers(RR_NS) :
          BatchDohReturn(call, aAnswers, aaaaAnswers, mxAnswers, nsAnswers)
             /\ UNCHANGED <<batchFrame, wkBuckets>>
    \/ BatchFinish /\ UNCHANGED <<batchFrame, wkBuckets>>
    \/ BatchDone /\ UNCHANGED <<batchFrame, wkBuckets>>

SpecBatch == InitBatch /\ [][NextBatch]_vars

\* a step of a scan that has started its lookups
BatchProgress ==
    \/ \E call \in Calls : BatchLookup(call)
    \/ \E call \in Calls, oa \in BatchOutcomes(RR_A), oaaaa \in BatchOutcomes(RR_AAAA),
          omx \in BatchOutcomes(RR_MX), ons \in BatchOutcomes(RR_NS) :
          BatchNodeReturn(call, oa, oaaaa, omx, ons)
    \/ \E call \in Calls, aAnswers \in BatchAnswers(RR_A),
          aaaaAnswers \in BatchAnswers(RR_AAAA), mxAnswers \in BatchAnswers(RR_MX),
          nsAnswers \in BatchAnswers(RR_NS) :
          BatchDohReturn(call, aAnswers, aaaaAnswers, mxAnswers, nsAnswers)
    \/ BatchFinish

\* the scheduling of a scan with DNS: while a continuation is ready or a
\* lookup is outstanding, one of them runs or settles (a lookup settles by
\* its answer, its rejection or the timeout timer), and Promise.all resumes
\* scan once every call has settled
FairBatch == WF_vars(BatchProgress /\ UNCHANGED <<batchFrame, wkBuckets>>)

SpecBatchFair == InitBatch /\ [][NextBatch]_vars /\ FairBatch

\* the scored candidates of the call: every raw variant under every target TLD
BatchCandidates ==
    IF btCall.kind = "runScan"
    THEN LET raws == generateVariants(splitDomain(btCall.domain).label,
                                      WorkerOptions(FALSE),
                                      buildPrototypeBuckets(WorkerBucketConfig))
         IN {ScoreOne(generated, target, [useMaxDanger |-> FALSE, font |-> ""]) :
                generated \in Range(raws),
                target \in Range(getTargetTlds(<<splitDomain(btCall.domain).tld>>,
                                               FALSE, ScriptsSeen(raws)))}
    ELSE LET scanned == BatchScanOptions(btCall)
             raws == generateVariants(
                         splitDomain(btCall.domain).label, scanned,
                         buildPrototypeBuckets(
                             [includeNonPvalid |-> FALSE, maxPerChar |-> scanned.maxPerChar,
                              useMaxDanger |-> FALSE]))
         IN {ScoreOne(generated, target, [useMaxDanger |-> FALSE, font |-> ""]) :
                generated \in Range(raws),
                target \in Range(getTargetTlds(<<splitDomain(btCall.domain).tld>>,
                                               FALSE, ScriptsSeen(raws)))}

BatchPassing == {c \in BatchCandidates : c.dangerScore >= btCall.threshold}

\* registered before unregistered, then "active" before the others, then
\* the higher dangerScore
InOrder(x, y) ==
    \/ x.dns.registered /\ ~y.dns.registered
    \/ /\ x.dns.registered = y.dns.registered
       /\ \/ x.dns.threatLevel = "active" /\ y.dns.threatLevel # "active"
          \/ /\ (x.dns.threatLevel = "active") = (y.dns.threatLevel = "active")
             /\ x.dangerScore >= y.dangerScore

HasDns(v) == v.dns.threatLevel \in {"unregistered", "parked", "active"}

\* no resolve() call of the batch has settled yet
NoneSettled == \A c \in DOMAIN btList : callPc[c] # "returned"

\* the lookups were started for the passing candidates of highest score, at
\* most top of them, one call each
AskedForCapped ==
    /\ Len(btAsked) = Min(btCall.top, Cardinality(BatchPassing))
    /\ Len(btList) = Len(btAsked)
    /\ \A i \in DOMAIN btAsked :
          /\ btList[i].domain = btAsked[i]
          /\ \E c \in BatchPassing : WithDns(c, btList[i].dns) = btList[i]
    /\ \A i, j \in DOMAIN btAsked : btAsked[i] = btAsked[j] => i = j
    /\ \A c \in BatchPassing :
          c.domain \notin Range(btAsked) =>
              \A i \in DOMAIN btList : btList[i].dangerScore >= c.dangerScore

\* while the lookups run no further resolve() call is made and a variant
\* changes only by getting the dns of its own call
AskedOnce ==
    btPc = "resolving" =>
        /\ btAsked' = btAsked
        /\ DOMAIN btList' = DOMAIN btList
        /\ \A i \in DOMAIN btList :
              /\ WithDns(btList'[i], btList[i].dns) = btList[i]
              /\ btList'[i] # btList[i] =>
                    callPc[i] = "lookup" /\ callPc'[i] = "returned"

\* C29: with DNS resolution, resolve is called only for the variants that
\* passed the threshold and the top cut (at most top calls); the returned list
\* has registered variants first, then threatLevel "active" first, then
\* non-increasing dangerScore, and every returned variant has a dns result
C29_ResolveCappedThenResort ==
    /\ []((btPc # "idle" /\ ~btCall.resolve) => btAsked = <<>>)
    /\ []((btPc = "resolving" /\ NoneSettled) => AskedForCapped)
    /\ [][AskedOnce]_vars
    /\ []((btPc = "returned" /\ btCall.resolve) =>
            /\ Len(btAsked) <= btCall.top
            /\ Len(btResult.variants) = Len(btAsked)
            /\ Range(btResult.variants) = Range(btList)
            /\ {v.domain : v \in Range(btResult.variants)} = Range(btAsked)
            /\ \A i \in DOMAIN btResult.variants : HasDns(btResult.variants[i])
            /\ \A i, j \in DOMAIN btResult.variants :
                  i < j => InOrder(btResult.variants[i], btResult.variants[j]))

\* the cut left passing candidates out, and the re-sort moved a registered
\* variant ahead of an unregistered one with MX records that was asked first
C29_Witness ==
    /\ btPc = "returned"
    /\ btCall.resolve
    /\ Len(btAsked) = btCall.top
    /\ Cardinality(BatchPassing) > btCall.top
    /\ \E i, j \in DOMAIN btResult.variants :
          /\ i < j
          /\ btResult.variants[i] = btList[j]
          /\ btResult.variants[j] = btList[i]
          /\ btResult.variants[i].dns.threatLevel = "parked"
          /\ btResult.variants[j].dns.threatLevel = "active"
          /\ ~btResult.variants[j].dns.registered

\* a return step of the Node resolver gives the slot back or hands it on
SlotReleased ==
    \A c \in Calls :
        (resolver = "node" /\ callPc[c] = "lookup" /\ callPc'[c] = "returned") =>
            IF semQueue = <<>>
            THEN semRunning' = semRunning - 1 /\ semQueue' = <<>>
            ELSE /\ semRunning' = semRunning
                 /\ semQueue' = Tail(semQueue)
                 /\ callPc'[Head(semQueue)] = "admitted"

\* a resolve() call moves only from waiting to admitted, from admitted to its
\* lookups and from its lookups to returned, until the batch is handed back
CallAdvances ==
    btPc = "resolving" =>
        \A c \in Calls :
            callPc'[c] # callPc[c] =>
                \/ callPc[c] = "waiting" /\ callPc'[c] = "admitted"
                \/ callPc[c] = "admitted" /\ callPc'[c] = "lookup"
                \/ callPc[c] = "lookup" /\ callPc'[c] = "returned"

\* C21: whatever the record lookups do (answer, fail, time out) and for any
\* concurrency >= 1, every resolve() call eventually returns a DnsResult and
\* releases its slot, every queued call is eventually admitted, and the batch
\* completes with a dns result on every returned variant. The batch always
\* completes; it completes only with every call returned; and a call reaches
\* "returned" only through "admitted" and its lookups.
C21_BatchCompletes ==
    /\ (btPc = "resolving") ~> (btPc = "returned")
    /\ [][CallAdvances]_vars
    /\ [][SlotReleased]_vars
    /\ [](\A c \in Calls : callPc[c] = "returned" /\ c \in DOMAIN btList => HasDns(btList[c]))
    /\ []((btPc = "returned" /\ btCall.resolve) =>
            /\ \A c \in DOMAIN btList : callPc[c] = "returned"
            /\ semRunning = 0
            /\ semQueue = <<>>
            /\ Len(btResult.variants) = Len(btAsked)
            /\ \A i \in DOMAIN btResult.variants : HasDns(btResult.variants[i]))

\* a batch completed in which a call had to queue, and a variant got the
\* result of a call whose lookups all failed
C21_Witness ==
    /\ btPc = "returned"
    /\ btCall.resolve
    /\ btCall.kind = "scan"
    /\ Len(btAsked) > btCall.concurrency
    /\ \E i \in DOMAIN btResult.variants :
          /\ btResult.variants[i].dns.threatLevel = "unregistered"
          /\ btResult.variants[i].dns.a = <<>>
          /\ btResult.variants[i].dns.mx = <<>>
    /\ \E i \in DOMAIN btResult.variants : btResult.variants[i].dns.registered

(***************************************************************************)
(* The worker's KV cache: cachedScan, applyFilters and runScan             *)
(***************************************************************************)

\* the DNS answers of the period, by what the domain contains: nothing is
\* registered, or the domains with a Cyrillic letter have an A record, or
\* the domains with a Greek letter have an MX record
Zones == {"none", "cyrillicA", "greekMx"}

HasScript(domain, script) ==
    \E n \in DOMAIN domain : getScript(domain[n]) = script

\* createDohResolver().resolve(domain) under the answers of the period
ZoneResult(zone, domain) ==
    DnsResultOf(IF zone = "cyrillicA" /\ HasScript(domain, "Cyrillic") THEN <<RR_A>> ELSE <<>>,
                <<>>,
                IF zone = "greekMx" /\ HasScript(domain, "Greek") THEN <<RR_MX>> ELSE <<>>,
                <<>>)

\* runScan with its lookups settled under the answers of the period
ZoneResolved(allVariants, zone) ==
    [slot \in DOMAIN allVariants |->
        WithDns(allVariants[slot], ZoneResult(zone, allVariants[slot].domain))] \o <<>>

\* the resolve branch of runScan on the capped result
ResolveCapped(capped, resolve, zone) ==
    IF resolve
    THEN [capped EXCEPT !.variants = Resort(ZoneResolved(capped.variants, zone))]
    ELSE capped

runScan(domain, options, table, zone) ==
    ResolveCapped(runScanCapped(domain, options, table), options.resolve, zone)

\* JSON.parse(JSON.stringify(result)): a property holding undefined is not
\* written, so a variant without a font comes back without bestFont and
\* bestFontSsim
JsonVariant(v) ==
    [f \in DOMAIN v |->
        IF f = "bestFont" /\ ~v.hasFont THEN ""
        ELSE IF f = "bestFontSsim" /\ ~v.hasFont THEN 0
        ELSE v[f]]

JsonRoundTrip(result) ==
    [original |-> result.original, label |-> result.label, tld |-> result.tld,
     totalGenerated |-> result.totalGenerated,
     variants |-> [n \in DOMAIN result.variants |-> JsonVariant(result.variants[n])] \o <<>>]

\* applyFilters(result, threshold, top)
applyFilters(result, threshold, top) ==
    IF threshold = 0 /\ top >= Len(result.variants) THEN result
    ELSE [original |-> result.original, label |-> result.label, tld |-> result.tld,
          totalGenerated |-> result.totalGenerated,
          variants |-> SliceTo(SelectSeq(result.variants,
                                         LAMBDA v : v.dangerScore >= threshold), top)]

\* `v1:${domain}:${resolve}:${font}`
CacheKey(domain, options) ==
    [domain |-> domain, resolve |-> options.resolve, font |-> options.font]

\* the requests of /api/scan made here; font "" is no font parameter
WorkerRequests ==
    [domain : {<<Ch.o, Ch.a, 46, 99, 111, 109>>}, resolve : BOOLEAN,
     font : {"", "Georgia"}, useMaxDanger : BOOLEAN,
     threshold : Thresholds, top : {1, WorkerTopCeiling}]

\* cachedScan up to the answer of kv.get: a hit is served through applyFilters
CachedScanGet(request) ==
    /\ wsPc = "idle"
    /\ wsReq' = request
    /\ LET cacheKey == CacheKey(request.domain, request)
       IN IF cacheKey \in DOMAIN kv
          THEN /\ wsPc' = "served"
               /\ wsHit' = TRUE
               /\ wsServed' = applyFilters(kv[cacheKey], request.threshold, request.top)
          ELSE /\ wsPc' = "miss"
               /\ wsHit' = FALSE
               /\ wsServed' = NoScanResult
    /\ UNCHANGED <<kv, wsZone, wkBuckets>>

\* kv.put(cacheKey, JSON.stringify(result)) and return applyFilters(result, ...)
PutAndServe(result) ==
    /\ kv' = (CacheKey(wsReq.domain, wsReq) :> JsonRoundTrip(result)) @@ kv
    /\ wsServed' = applyFilters(result, wsReq.threshold, wsReq.top)

\* cachedScan after a miss: runScan at threshold 0 and top 200, kv.put, and
\* the result served through applyFilters
CachedScanRun ==
    /\ wsPc = "miss"
    /\ wkBuckets' = getBuckets(wkBuckets, WorkerBucketConfig)
    /\ PutAndServe(runScan(wsReq.domain,
                            [wsReq EXCEPT !.threshold = 0, !.top = WorkerTopCeiling],
                            wkBuckets'.table, wsZone))
    /\ wsPc' = "served"
    /\ UNCHANGED <<wsReq, wsHit, wsZone>>

\* the response is sent
RequestDone ==
    /\ wsPc = "served"
    /\ wsPc' = "idle"
    /\ wsReq' = NoRequest
    /\ wsHit' = FALSE
    /\ wsServed' = NoScanResult
    /\ UNCHANGED <<kv, wsZone, wkBuckets>>

\* expirationTtl: an entry is gone an hour after it was written
KvExpire(cacheKey) ==
    /\ cacheKey \in DOMAIN kv
    /\ kv' = [k \in DOMAIN kv \ {cacheKey} |-> kv[k]]
    /\ UNCHANGED <<wsPc, wsReq, wsHit, wsServed, wsZone, wkBuckets>>

\* the DNS answers change; taken here once every entry written under the
\* old answers has expired
ZoneChange(zone) ==
    /\ wsPc = "idle"
    /\ DOMAIN kv = {}
    /\ zone # wsZone
    /\ wsZone' = zone
    /\ UNCHANGED <<kv, wsPc, wsReq, wsHit, wsServed, wkBuckets>>

workerFrame == <<coreVars, tgVars, rlVars, dfBuckets, bkPc, bkCall, btVars, shVars>>

InitWorker == GenIdle /\ InitScore /\ InitReverse /\ InitRest

NextWorker ==
    \/ \E request \in WorkerRequests : CachedScanGet(request) /\ UNCHANGED workerFrame
    \/ CachedScanRun /\ UNCHANGED workerFrame
    \/ RequestDone /\ UNCHANGED workerFrame
    \/ \E cacheKey \in DOMAIN kv : KvExpire(cacheKey) /\ UNCHANGED workerFrame
    \/ \E zone \in Zones : ZoneChange(zone) /\ UNCHANGED workerFrame

SpecWorker == InitWorker /\ [][NextWorker]_vars

\* the fresh scan of a request: runScan with the request's own domain,
\* resolve, font and useMaxDanger at threshold 0 and top 200, over the
\* worker's table, then applyFilters with the request's threshold and top
FreshServed(request, zone) ==
    CHOOSE r \in {JsonRoundTrip(
                    applyFilters(
                      runScan(req.domain,
                              [req EXCEPT !.threshold = 0, !.top = WorkerTopCeiling],
                              buildPrototypeBuckets(WorkerBucketConfig), z),
                      req.threshold, req.top)) : req \in {request}, z \in {zone}} : TRUE

\* C26: what cachedScan serves for a request, from the cache or not, is
\* applyFilters(threshold, top) of a fresh runScan with the request's own
\* domain, resolve, font and useMaxDanger at threshold 0 and top 200
C26_AsStated ==
    wsPc = "served" => JsonRoundTrip(wsServed) = FreshServed(wsReq, wsZone)

\* a request with use_max_danger=true is served, from the entry a request
\* without it stored under the same key, scores other than its own
C26_HitOfOtherDangerKey ==
    /\ wsPc = "served"
    /\ wsHit
    /\ wsReq.useMaxDanger
    /\ wsServed.variants # <<>>
    /\ {v.dangerScore : v \in Range(wsServed.variants)}
          # {v.dangerScore : v \in Range(FreshServed(wsReq, wsZone).variants)}

\* C26 (what the code does keep): a request served on a miss gets the fresh
\* result of its own options
C26_MissIsFresh ==
    (wsPc = "served" /\ ~wsHit) => JsonRoundTrip(wsServed) = FreshServed(wsReq, wsZone)

C26_MissWitness ==
    /\ wsPc = "served"
    /\ ~wsHit
    /\ wsReq.resolve
    /\ wsReq.useMaxDanger
    /\ Len(wsServed.variants) = 1
    /\ wsServed.variants[1].dns.registered

(***************************************************************************)
(* Calls of several callers over one PrototypeBuckets instance and one     *)
(* RawVariant array                                                        *)
(***************************************************************************)

\* the two callers sharing the instance
Callers == {1, 2}

\* subs.slice(0, n) taking the elements out of subs, as splice(0, n) does
ReceiverAfterSlice_Splice(subs, n) == SubSeq(subs, Min(n, Len(subs)) + 1, Len(subs))

\* the receiver after subs.slice(0, n): slice copies, subs is as it was
ReceiverAfterSlice(subs, n) == subs

\* the bucket instance after the slices of generateVariants at position i:
\* const subs = protoBuckets[proto]; const topSubs = subs.slice(0, maxPerChar)
TableAfterOneEdit(bk, chars, maxPerChar, i) ==
    IF ~HasBucket(bk, chars[i]) THEN bk
    ELSE [c \in DOMAIN bk |->
             IF c = chars[i] THEN ReceiverAfterSlice(bk[c], maxPerChar) ELSE bk[c]]

\* the calls made over the shared instance and the shared array
SharedCalls ==
    [kind : {"generateVariants"},
     label : {<<Ch.a>>, <<Ch.O, Ch.a>>},
     maxEdits : {1, 2}, maxPerChar : {1, 2}, useMaxDanger : BOOLEAN,
     tld : {<<>>}, font : {""}, n : {0}]
    \cup
    [kind : {"scoreVariants"}, label : {<<>>}, maxEdits : {0}, maxPerChar : {0},
     useMaxDanger : BOOLEAN, tld : {<<99, 111, 109>>}, font : {"", "Georgia"}, n : {0}]
    \cup
    [kind : {"computeDangerScore", "findBestFont"}, label : {<<>>}, maxEdits : {0},
     maxPerChar : {0}, useMaxDanger : {FALSE}, tld : {<<>>}, font : {""}, n : {1}]
    \cup
    [kind : {"reverseScan"}, label : {<<Ch.cyrA, 46, 99, 111, 109>>}, maxEdits : {0},
     maxPerChar : {0}, useMaxDanger : {FALSE}, tld : {<<>>}, font : {""}, n : {0}]

GenerateOptionsOf(call) ==
    [maxEdits |-> call.maxEdits, maxPerChar |-> call.maxPerChar,
     maxVariants |-> MaxVariantsBound, useMaxDanger |-> call.useMaxDanger]

\* a new instance is built and handed to the callers
SharedBuild(config) ==
    /\ \A c \in Callers : shPc[c] = "idle"
    /\ shTable' = buildPrototypeBuckets(config)
    /\ shTable' # shTable
    /\ UNCHANGED <<shRaw, shPc, shCall, shPos, shSt, shOut, shOverlap>>

\* a caller starts a call
SharedStart(c, call) ==
    /\ shPc[c] = "idle"
    /\ call.n <= Len(shRaw)
    /\ shPc' = [shPc EXCEPT ![c] = "running"]
    /\ shCall' = [shCall EXCEPT ![c] = call]
    /\ shPos' = [shPos EXCEPT ![c] = 1]
    /\ shSt' = [shSt EXCEPT ![c] = NoProgress]
    /\ shOverlap' = [d \in Callers |->
                        IF d = c THEN \E e \in Callers \ {c} : shPc[e] = "running"
                        ELSE shOverlap[d] \/ shPc[d] = "running"]
    /\ UNCHANGED <<shTable, shRaw, shOut>>

\* generateVariants: the 1-edit pass at one position of the label
StepOneEdit(c) ==
    LET call == shCall[c]
        chars == LowerStr(call.label)
    IN /\ shPc[c] = "running"
       /\ call.kind = "generateVariants"
       /\ shPos[c] <= Len(chars)
       /\ shSt' = [shSt EXCEPT ![c] =
                      IF @.ok
                      THEN RunPass(@, MaxVariantsBound,
                                   OneEditAt(chars, shTable, call.maxPerChar, shPos[c]), 1)
                      ELSE @]
       /\ shTable' = TableAfterOneEdit(shTable, chars, call.maxPerChar, shPos[c])
       /\ shPos' = [shPos EXCEPT ![c] = @ + 1]
       /\ UNCHANGED <<shRaw, shPc, shCall, shOut, shOverlap>>

\* generateVariants: the 2-edit pass and return finalize(variants, scoreKey)
StepTwoEdit(c) ==
    LET call == shCall[c]
        chars == LowerStr(call.label)
        end == IF shSt[c].ok /\ call.maxEdits >= 2
               THEN RunPass(shSt[c], MaxVariantsBound,
                            TwoEditCandidates(chars, shTable, call.maxPerChar), 1)
               ELSE shSt[c]
    IN /\ shPc[c] = "running"
       /\ call.kind = "generateVariants"
       /\ shPos[c] > Len(chars)
       /\ shSt' = [shSt EXCEPT ![c] = end]
       /\ shOut' = [shOut EXCEPT ![c] = finalize(end.variants, call.useMaxDanger)]
       /\ shPc' = [shPc EXCEPT ![c] = "returned"]
       /\ UNCHANGED <<shTable, shRaw, shCall, shPos, shOverlap>>

\* scoreVariants: rawVariants.map, one element of the shared array a step
StepScore(c) ==
    LET call == shCall[c]
        options == [useMaxDanger |-> call.useMaxDanger, font |-> call.font]
    IN /\ shPc[c] = "running"
       /\ call.kind = "scoreVariants"
       /\ IF shPos[c] <= Len(shRaw)
          THEN /\ shSt' = [shSt EXCEPT ![c].variants =
                              Append(@, ScoreOne(shRaw[shPos[c]], call.tld, options))]
               /\ shPos' = [shPos EXCEPT ![c] = @ + 1]
               /\ UNCHANGED <<shOut, shPc>>
          ELSE /\ shOut' = [shOut EXCEPT ![c] = shSt[c].variants]
               /\ shPc' = [shPc EXCEPT ![c] = "returned"]
               /\ UNCHANGED <<shSt, shPos>>
       /\ UNCHANGED <<shTable, shRaw, shCall, shOverlap>>

\* computeDangerScore, findBestFont over the substitutions of a shared
\* variant, and reverseScan, which is handed a string only
StepWhole(c) ==
    LET call == shCall[c]
    IN /\ shPc[c] = "running"
       /\ call.kind \in {"computeDangerScore", "findBestFont", "reverseScan"}
       /\ shOut' = [shOut EXCEPT ![c] =
                       IF call.kind = "computeDangerScore"
                       THEN <<computeDangerScore(shRaw[call.n].substitutions,
                                                 call.useMaxDanger)>>
                       ELSE IF call.kind = "findBestFont"
                       THEN <<findBestFont(shRaw[call.n].substitutions)>>
                       ELSE <<reverseScan(call.label)>>]
       /\ shPc' = [shPc EXCEPT ![c] = "returned"]
       /\ UNCHANGED <<shTable, shRaw, shCall, shPos, shSt, shOverlap>>

\* the caller takes the result; the variants of a generation call may become
\* the array the scoring calls are handed next
SharedReturn(c, publish) ==
    /\ shPc[c] = "returned"
    /\ publish => /\ shCall[c].kind = "generateVariants"
                  /\ shOut[c] # <<>>
                  /\ \A d \in Callers \ {c} : shPc[d] = "idle"
    /\ shRaw' = IF publish THEN shOut[c] ELSE shRaw
    /\ shPc' = [shPc EXCEPT ![c] = "idle"]
    /\ shCall' = [shCall EXCEPT ![c] = NoSharedCall]
    /\ shPos' = [shPos EXCEPT ![c] = 1]
    /\ shSt' = [shSt EXCEPT ![c] = NoProgress]
    /\ shOut' = [shOut EXCEPT ![c] = <<>>]
    /\ shOverlap' = [shOverlap EXCEPT ![c] = FALSE]
    /\ UNCHANGED shTable

sharedFrame == <<coreVars, tgVars, rlVars, bkVars, btVars, wsVars>>

InitShared == GenIdle /\ InitScore /\ InitReverse /\ InitRest

NextShared ==
    \/ \E config \in {WorkerBucketConfig, DefaultBucketConfig} :
          SharedBuild(config) /\ UNCHANGED sharedFrame
    \/ \E c \in Callers, call \in SharedCalls : SharedStart(c, call) /\ UNCHANGED sharedFrame
    \/ \E c \in Callers : StepOneEdit(c) /\ UNCHANGED sharedFrame
    \/ \E c \in Callers : StepTwoEdit(c) /\ UNCHANGED sharedFrame
    \/ \E c \in Callers : StepScore(c) /\ UNCHANGED sharedFrame
    \/ \E c \in Callers : StepWhole(c) /\ UNCHANGED sharedFrame
    \/ \E c \in Callers, publish \in BOOLEAN : SharedReturn(c, publish) /\ UNCHANGED sharedFrame

SpecShared == InitShared /\ [][NextShared]_vars

\* the result of the call run on its own over the instance and the array
AloneResult(call) ==
    IF call.kind = "generateVariants"
    THEN generateVariants(call.label, GenerateOptionsOf(call), shTable)
    ELSE IF call.kind = "scoreVariants"
    THEN scoreVariants(shRaw, call.tld,
                       [useMaxDanger |-> call.useMaxDanger, font |-> call.font]) \o <<>>
    ELSE IF call.kind = "computeDangerScore"
    THEN <<computeDangerScore(shRaw[call.n].substitutions, call.useMaxDanger)>>
    ELSE IF call.kind = "findBestFont"
    THEN <<findBestFont(shRaw[call.n].substitutions)>>
    ELSE <<reverseScan(call.label)>>

\* a step taken while a call is running, or starting one, leaves the instance
\* and the shared array as they were
CallsOnlyRead ==
    ((\E c \in Callers : shPc[c] = "running") \/ (\E c \in Callers : shPc'[c] = "running"))
        => (shTable' = shTable /\ shRaw' = shRaw)

\* C24: no step of generateVariants, computeDangerScore, findBestFont,
\* scoreVariants or reverseScan changes the shared bucket instance or the
\* arrays handed to it, and a call that returns, however it was interleaved
\* with the other caller's, returns what it returns when run on its own
C24_SharedReadOnly ==
    /\ [][CallsOnlyRead]_vars
    /\ [](\A c \in Callers : shPc[c] = "returned" => shOut[c] = AloneResult(shCall[c]))

\* two generation calls over the same bucket overlapped and both returned
\* variants, the second of them still holding its result
C24_Witness ==
    /\ shPc[1] = "returned" /\ shPc[2] = "returned"
    /\ shOverlap[1] /\ shOverlap[2]
    /\ shCall[1].kind = "generateVariants" /\ shCall[2].kind = "generateVariants"
    /\ shCall[1].label = shCall[2].label
    /\ shCall[1].maxPerChar < shCall[2].maxPerChar
    /\ Len(shOut[1]) > 0 /\ Len(shOut[2]) > Len(shOut[1])

============================================================================
